---- MODULE Spec2Model ----
\* A model of mcant: a rule-driven multi-ant automaton acting on a block world.
\* The engine step (read block, find_rule, write, update, move) follows
\* src/main.rs; the data model follows src/rules.rs and src/parse/mod.rs; the
\* population handling (cap, halted flag, spawn, identities) follows spec.md
\* section 4.3, since main.rs drives a single ant.
EXTENDS Integers, Sequences, FiniteSets, TLC

\* ---------------------------------------------------------------- bounds
MaxRules == 2
MaxTicks == 3
MaxAnts == 2
MaxCap == 2
MaxStmts == 2
MaxText == 4

\* ------------------------------------------------------------ data model
None == "None"

INITIAL_STATE == "initial"

DEFAULT_DIRECTION == "East"

States == {"initial", "s1"}

Blocks == {"AIR", "STONE"}

Direction == {"East", "West", "South", "North", "Up", "Down"}

into_vec3(d) ==
  CASE d = "East" -> <<1, 0, 0>>
    [] d = "West" -> <<-1, 0, 0>>
    [] d = "South" -> <<0, 0, 1>>
    [] d = "North" -> <<0, 0, -1>>
    [] d = "Up" -> <<0, 1, 0>>
    [] d = "Down" -> <<0, -1, 0>>

CoordAdd(a, b) == <<a[1] + b[1], a[2] + b[2], a[3] + b[3]>>

move_forward(ant) == [ant EXCEPT !.position = CoordAdd(@, into_vec3(ant.facing))]

\* The Ant a successful ant ... end block yields.
AntProto(ruleset, offset, facing) ==
  [ruleset |-> ruleset, offset |-> offset, position |-> <<0, 0, 0>>,
   facing |-> facing, state |-> INITIAL_STATE, halted |-> FALSE, id |-> 0]

\* A Rule; an Option is None or the value, the optional spawn is a sequence
\* of length at most one.
Rule(fs, fb, ff, ts, tb, tf, sp) ==
  [from_state |-> fs, from_block |-> fb, from_facing |-> ff,
   to_state |-> ts, to_block |-> tb, to_facing |-> tf, spawn |-> sp]

\* ------------------------------------------------------- rule resolution
RuleMatchesNoWildcard(rule, ant, block) ==
  /\ block \in rule.from_block
  /\ ant.state \in rule.from_state

\* The condition find_rule tests for one rule.
RuleMatches(rule, ant, block) ==
  /\ (rule.from_block = {} \/ block \in rule.from_block)
  /\ (rule.from_state = {} \/ ant.state \in rule.from_state)

RECURSIVE find_rule_from(_, _, _, _)
find_rule_from(rules, ant, block, i) ==
  IF i > Len(rules) THEN 0
  ELSE IF RuleMatches(rules[i], ant, block) THEN i
  ELSE find_rule_from(rules, ant, block, i + 1)

\* Index of the rule find_rule returns, 0 for None.
find_rule(rules, ant, block) == find_rule_from(rules, ant, block, 1)

\* ------------------------------------------------------------ transition
\* Facing after a rule fired: an absent to-facing leaves the facing alone.
to_facing_apply(ant, rule) ==
  IF rule.to_facing = None THEN ant.facing ELSE rule.to_facing

\* Block a fired rule writes, None for no write.
to_block_write_wrong(rule) ==
  IF rule.to_block = None THEN "AIR" ELSE rule.to_block

to_block_write(rule) == rule.to_block

\* A plausible slip: the ant moves before its facing is updated.
Transition_wrong(ant, rule) ==
  [wpos |-> ant.position,
   wblock |-> to_block_write(rule),
   ant |-> [move_forward(ant) EXCEPT !.state = rule.to_state,
                                     !.facing = to_facing_apply(ant, rule)]]

\* set_block at the ant's position, then state, facing, move_forward.
Transition(ant, rule) ==
  [wpos |-> ant.position,
   wblock |-> to_block_write(rule),
   ant |-> move_forward([ant EXCEPT !.state = rule.to_state,
                                    !.facing = to_facing_apply(ant, rule)])]

\* No rule matched: the ant stops for good.
Halt_wrong(ant) == ant

Halt(ant) == [ant EXCEPT !.halted = TRUE]

\* ------------------------------------------------------------- failures
\* A slip: the error of a world call is dropped and the loop goes on.
Propagate_wrong(at) == at

\* The ? operator on a failed call: main returns the error, the loop is left.
Propagate(at) == "failed"

\* ------------------------------------------------------------ population
PlayerPos == <<0, 0, 0>>

\* A slip: the prototypes keep the identity the parser gave them.
Instantiate_wrong(protos) ==
  [i \in 1..Len(protos) |->
     [protos[i] EXCEPT !.position = CoordAdd(PlayerPos, protos[i].offset)]]

\* Prototypes become live ants: anchor + offset, identities in list order.
Instantiate(protos) ==
  [i \in 1..Len(protos) |->
     [protos[i] EXCEPT !.position = CoordAdd(PlayerPos, protos[i].offset),
                       !.id = i]]

SpawnAnt_wrong(proto, position, id) ==
  [proto EXCEPT !.position = proto.offset, !.id = proto.id]

\* A spawned ant: the prototype placed at the given position with a new id.
SpawnAnt(proto, position, id) ==
  [proto EXCEPT !.position = position, !.id = id]

\* A slip: the population is never trimmed.
TrimToCap_skip(list, c) == list

RECURSIVE TrimToCap_wrong(_, _)
TrimToCap_wrong(list, c) ==
  IF Len(list) > c THEN TrimToCap_wrong(SubSeq(list, 1, Len(list) - 1), c)
  ELSE list

\* While the population exceeds the cap, remove the ant at index 0.
RECURSIVE TrimToCap(_, _)
TrimToCap(list, c) ==
  IF Len(list) > c THEN TrimToCap(Tail(list), c) ELSE list

\* A slip: a halted ant is taken through the step like any other.
Running_wrong(ant) == TRUE

\* The test at the head of the step: a halted ant is skipped.
Running(ant) == ~ant.halted

PassEnd_wrong(len, list) == Len(list)

\* The pass runs over the ants that were in the list when it began.
PassEnd(len, list) == len

AllHalted_wrong(list) == IF Len(list) = 0 THEN TRUE ELSE list[1].halted

\* The loop's exit test: every ant of the population is halted.
AllHalted(list) == \A i \in 1..Len(list) : list[i].halted

ToLower(name) ==
  CASE name = "A" -> "a"
    [] name = "B" -> "b"
    [] name = "R" -> "r"
    [] name = "S1" -> "s1"
    [] name = "Stone" -> "stone"
    [] name = "NORTH" -> "north"
    [] name = "DELAY" -> "delay"
    [] name = "Cap" -> "cap"
    [] OTHER -> name

eq_ignore_ascii_case(a, b) == ToLower(a) = ToLower(b)

\* Rules of the first ruleset whose name equals the ant's, ignoring case.
RulesOf(sets, ant) ==
  LET i == CHOOSE k \in 1..Len(sets) :
             /\ eq_ignore_ascii_case(sets[k].name, ant.ruleset)
             /\ \A j \in 1..(k - 1) :
                  ~eq_ignore_ascii_case(sets[j].name, ant.ruleset)
  IN sets[i].rules

\* ------------------------------------------------------------------ world
WorldSet(w, p, b) ==
  [q \in (DOMAIN w) \cup {p} |-> IF q = p THEN b ELSE w[q]]

\* Blocks a read of p can return: the known block, or any block when the
\* cell was never read or written in this run.
Readable(w, p) == IF p \in DOMAIN w THEN {w[p]} ELSE Blocks

\* ------------------------------------------------------- World and Cache
CACHE_COOLDOWN == 4000

MAX_DISTANCE == 16

Abs(n) == IF n < 0 THEN -n ELSE n

manhattan_distance(a, b) == Abs(a[1] - b[1]) + Abs(a[2] - b[2]) + Abs(a[3] - b[3])

Cache_enabled(radius, lifetime) == radius > 0 /\ lifetime > 0

\* What stands for an Instant when the u32 arithmetic has no result: the
\* subtraction would be negative or the divisor is zero.
ArithmeticPanic == -1

\* Times are in milliseconds; dist and max_dist are u32.
calculate_expiration(radius, lifetime, now, origin, location) ==
  LET dist == manhattan_distance(origin, location)
      max_dist == radius * 3
  IN IF max_dist = 0 \/ dist > max_dist THEN ArithmeticPanic
     ELSE now + ((lifetime * (max_dist - dist)) \div max_dist)

\* A slip: the cube asked for is one cell wider on every side.
get_chunk_wrong(radius, location) ==
  { <<x, y, z>> : x \in (location[1] - radius - 1)..(location[1] + radius + 1),
                  y \in (location[2] - radius - 1)..(location[2] + radius + 1),
                  z \in (location[3] - radius - 1)..(location[3] + radius + 1) }

\* The cells of the cube mc.get_blocks is asked for around a location.
get_chunk(radius, location) ==
  { <<x, y, z>> : x \in (location[1] - radius)..(location[1] + radius),
                  y \in (location[2] - radius)..(location[2] + radius),
                  z \in (location[3] - radius)..(location[3] + radius) }

Restrict(f, S) == [q \in S |-> f[q]]

\* Cache::clean: past next_clean, keep the unexpired entries near the origin.
Cache_clean(radius, lifetime, entries, next_clean, now, origin) ==
  IF ~Cache_enabled(radius, lifetime) \/ now < next_clean
  THEN [entries |-> entries, next_clean |-> next_clean]
  ELSE [entries |-> Restrict(entries,
                      { q \in DOMAIN entries :
                          /\ now <= entries[q].expiration
                          /\ manhattan_distance(origin, q) <= MAX_DISTANCE }),
        next_clean |-> now + CACHE_COOLDOWN]

\* Cache::get: the cached block or None; an expired entry is removed.
Cache_get(radius, lifetime, entries, now, location) ==
  IF ~Cache_enabled(radius, lifetime) \/ location \notin DOMAIN entries
  THEN [block |-> None, entries |-> entries]
  ELSE IF now > entries[location].expiration
  THEN [block |-> None, entries |-> Restrict(entries, (DOMAIN entries) \ {location})]
  ELSE [block |-> entries[location].block, entries |-> entries]

\* Cache::insert.
Cache_insert(radius, lifetime, entries, now, origin, location, block) ==
  IF ~Cache_enabled(radius, lifetime) THEN entries
  ELSE [q \in (DOMAIN entries) \cup {location} |->
          IF q = location
          THEN [block |-> block,
                expiration |-> calculate_expiration(radius, lifetime, now, origin, location)]
          ELSE entries[q]]

\* The block the connection holds at a cell; cells never touched hold AIR.
McBlock(mc, q) == IF q \in DOMAIN mc THEN mc[q] ELSE "AIR"

\* get_block's loop: every entry of the fetched chunk is inserted.
InsertChunk(radius, lifetime, entries, now, origin, mc) ==
  IF ~Cache_enabled(radius, lifetime) THEN entries
  ELSE [q \in (DOMAIN entries) \cup get_chunk(radius, origin) |->
          IF q \in get_chunk(radius, origin)
          THEN [block |-> McBlock(mc, q),
                expiration |-> calculate_expiration(radius, lifetime, now, origin, q)]
          ELSE entries[q]]

\* A slip: set_block cleans the cache but does not record the new block.
SetBlockCache_wrong(radius, lifetime, entries, next_clean, now, location, block) ==
  Cache_clean(radius, lifetime, entries, next_clean, now, location)

\* set_block past the early return: clean, then insert (location, block).
SetBlockCache(radius, lifetime, entries, next_clean, now, location, block) ==
  LET cleaned == Cache_clean(radius, lifetime, entries, next_clean, now, location)
  IN [entries |-> Cache_insert(radius, lifetime, cleaned.entries, now, location,
                               location, block),
      next_clean |-> cleaned.next_clean]

\* ----------------------------------------------------------------- inputs
RulePool ==
  { Rule({}, {}, {}, "s1", None, None, <<>>),
    Rule({"initial"}, {"AIR"}, {}, "initial", "STONE", "North", <<>>),
    Rule({}, {}, {"North"}, "s1", "AIR", None,
         <<AntProto("B", <<0, 0, 1>>, "Up")>>),
    Rule({"s1"}, {}, {"East", "Up"}, "initial", "STONE", None,
         <<AntProto("a", <<0, 0, 0>>, DEFAULT_DIRECTION)>>) }

\* Rulesets of at most MaxRules distinct rules, in every order.
RulesetPool ==
  { rs \in UNION { [1..n -> RulePool] : n \in 0..MaxRules } :
      \A i, j \in 1..Len(rs) : rs[i] = rs[j] => i = j }

SecondPool == { <<>>, <<Rule({}, {}, {}, "s1", None, None, <<>>)>> }

ProtoPool ==
  { AntProto("a", <<0, 0, 0>>, DEFAULT_DIRECTION),
    AntProto("B", <<0, 0, 1>>, "North") }

ProtoSeqs == UNION { [1..n -> ProtoPool] : n \in 0..MaxAnts }

\* The attributes of an ant block read so far; an Option is a sequence of
\* length at most one.
NoAnt == [ruleset |-> <<>>, offset |-> <<>>, facing |-> <<>>]

\* parse_schema before the first statement.
PStart ==
  [pos |-> 1, symbols |-> [n \in {} |-> None], ants |-> <<>>,
   rulesets |-> <<>>, properties |-> [delay |-> <<>>, cap |-> <<>>],
   mode |-> "top", ant |-> NoAnt, name |-> "", rules |-> <<>>]

\* ------------------------------------------------------------------ state
VARIABLES
  rulesets,   \* Schema.rulesets
  cap,        \* Properties.cap
  ants,       \* the live population, in list order
  world,      \* blocks of the cells this run has read or written
  nextId,     \* next identity ordinal
  pc,         \* "loop", "pass", "done", "failed"
  idx,        \* index of the ant the pass is at
  passLen,    \* population size when the pass began
  tick,       \* ticks begun
  failure,    \* which world operation failed: "none", "effect", "read", "write"
  last,       \* what the latest step did
  preTrim,    \* the population before the latest trim
  created,    \* identities handed out so far
  processed,  \* identities of ants whose cell was read for rule resolution
  writers,    \* identities of ants a cell was written for
  everHalted, \* identities of ants that were halted at some time
  tickLog     \* this tick: identities spawned, identities processed in order

VARIABLES
  w_radius,     \* Cache.chunk_radius
  w_lifetime,   \* Cache.max_lifetime, in milliseconds
  w_mc,         \* the blocks the connection holds, where they differ from AIR
  w_entries,    \* Cache.entries
  w_next_clean, \* Cache.next_clean
  w_now,        \* Instant::now()
  w_pc,         \* "ready", "failed" ("idle" when World is not the subject)
  w_steps,      \* operations and clock advances so far
  w_last,       \* the latest World operation and its result
  w_expect      \* per cell, the block of the latest set_block call that succeeded

VARIABLES
  p_tokens,     \* the lexemes Tokens yields for the input
  p_pos,        \* the cursor: index of the token peek() shows
  p_symbols,    \* Parser.symbols
  p_ants,       \* parse_schema: ants
  p_rulesets,   \* parse_schema: rulesets
  p_properties, \* parse_schema: properties
  p_mode,       \* where the parser is: "top", "ant", "ruleset", "spawn"
  p_ant,        \* try_ant: ruleset, offset, facing
  p_name,       \* try_ruleset: name
  p_rules,      \* try_ruleset: rules
  p_rule,       \* expect_rule: the rule read up to its spawn clause
  p_block,      \* index of the ant keyword of the block being read
  p_result,     \* "running", "ok" or the error ("idle" when not the subject)
  p_prev,       \* the state of the parser before the latest step
  p_kind        \* the kind of the latest step

VARIABLES
  l_text,       \* Tokens.text, a sequence of characters
  l_cursor,     \* Tokens.cursor, a byte offset from 0
  l_tokens,     \* the slices next() has returned: cursor before, start, end
  l_pc          \* "lexing", "done" ("idle" when the lexer is not the subject)

engineVars ==
  <<rulesets, cap, ants, world, nextId, pc, idx, passLen, tick, failure,
    last, preTrim, created, processed, writers, everHalted, tickLog>>

worldVars ==
  <<w_radius, w_lifetime, w_mc, w_entries, w_next_clean, w_now, w_pc, w_steps,
    w_last, w_expect>>

parseVars ==
  <<p_tokens, p_pos, p_symbols, p_ants, p_rulesets, p_properties, p_mode,
    p_ant, p_name, p_rules, p_rule, p_block, p_result, p_prev, p_kind>>

lexVars == <<l_text, l_cursor, l_tokens, l_pc>>

vars == <<engineVars, worldVars, parseVars, lexVars>>

\* What the engine leaves alone.
notEngine == <<worldVars, parseVars, lexVars>>

\* What World leaves alone.
notWorld == <<engineVars, parseVars, lexVars>>

\* What the parser leaves alone.
notParse == <<engineVars, worldVars, lexVars>>

NoStep ==
  [kind |-> "none", before |-> AntProto("a", <<0, 0, 0>>, DEFAULT_DIRECTION),
   block |-> None, rule |-> 0, wrote |-> FALSE, wpos |-> <<0, 0, 0>>,
   wblock |-> None, pop |-> 0]

NoLog == [spawned |-> {}, visited |-> <<>>]

StepRec(kind, before, block, rule, wrote, wpos, wblock) ==
  [kind |-> kind, before |-> before, block |-> block, rule |-> rule,
   wrote |-> wrote, wpos |-> wpos, wblock |-> wblock, pop |-> Len(ants)]

NoOp == [op |-> "none", loc |-> <<0, 0, 0>>, block |-> None, ok |-> TRUE]

\* World is not the subject of the run.
WorldIdle ==
  /\ w_radius = 0
  /\ w_lifetime = 0
  /\ w_mc = [q \in {} |-> None]
  /\ w_entries = [q \in {} |-> None]
  /\ w_next_clean = 0
  /\ w_now = 0
  /\ w_pc = "idle"
  /\ w_steps = 0
  /\ w_last = NoOp
  /\ w_expect = [q \in {} |-> None]

\* The parser is not the subject of the run.
ParseIdle ==
  /\ p_tokens = <<>>
  /\ p_pos = PStart.pos
  /\ p_symbols = PStart.symbols
  /\ p_ants = PStart.ants
  /\ p_rulesets = PStart.rulesets
  /\ p_properties = PStart.properties
  /\ p_mode = PStart.mode
  /\ p_ant = PStart.ant
  /\ p_name = PStart.name
  /\ p_rules = PStart.rules
  /\ p_rule = Rule({}, {}, {}, "", None, None, <<>>)
  /\ p_block = 0
  /\ p_result = "idle"
  /\ p_prev = PStart
  /\ p_kind = "none"

\* The lexer is not the subject of the run.
LexIdle ==
  /\ l_text = <<>>
  /\ l_cursor = 0
  /\ l_tokens = <<>>
  /\ l_pc = "idle"

\* The engine is not the subject of the run.
EngineIdle ==
  /\ rulesets = <<>>
  /\ cap = 0
  /\ ants = <<>>
  /\ world = [q \in {} |-> None]
  /\ nextId = 1
  /\ pc = "idle"
  /\ idx = 1
  /\ passLen = 0
  /\ tick = 0
  /\ failure = "none"
  /\ last = NoStep
  /\ preTrim = <<>>
  /\ created = {}
  /\ processed = {}
  /\ writers = {}
  /\ everHalted = {}
  /\ tickLog = NoLog

Init ==
  /\ rulesets \in { << [name |-> "a", rules |-> r1], [name |-> "b", rules |-> r2] >> :
                      r1 \in RulesetPool, r2 \in SecondPool }
  /\ cap \in 1..MaxCap
  /\ ants \in { Instantiate(ps) : ps \in ProtoSeqs }
  /\ world = [q \in {} |-> None]
  /\ nextId = Len(ants) + 1
  /\ pc = "loop"
  /\ idx = 1
  /\ passLen = 0
  /\ tick = 0
  /\ failure = "none"
  /\ last = NoStep
  /\ preTrim = ants
  /\ created = 1..Len(ants)
  /\ processed = {}
  /\ writers = {}
  /\ everHalted = {}
  /\ tickLog = NoLog
  /\ WorldIdle
  /\ ParseIdle
  /\ LexIdle

\* ---------------------------------------------------------------- actions
\* Top of the loop with a running ant: trim to the cap, begin the pass.
TickStart ==
  /\ pc = "loop"
  /\ ~AllHalted(ants)
  /\ tick < MaxTicks
  /\ ants' = TrimToCap(ants, cap)
  /\ preTrim' = ants
  /\ passLen' = Len(ants')
  /\ idx' = 1
  /\ tick' = tick + 1
  /\ pc' = "pass"
  /\ last' = NoStep
  /\ UNCHANGED <<rulesets, cap, world, nextId, failure, created, processed,
                 writers, everHalted>>
  /\ tickLog' = NoLog
  /\ UNCHANGED notEngine

\* Top of the loop with every ant halted: the run ends.
Finish ==
  /\ pc = "loop"
  /\ AllHalted(ants)
  /\ pc' = "done"
  /\ last' = NoStep
  /\ UNCHANGED <<rulesets, cap, ants, world, nextId, idx, passLen, tick,
                 failure, preTrim, created, processed, writers, everHalted,
                 tickLog>>
  /\ UNCHANGED notEngine

\* A halted ant is passed over.
SkipHalted ==
  /\ pc = "pass"
  /\ idx <= PassEnd(passLen, ants)
  /\ ~Running(ants[idx])
  /\ idx' = idx + 1
  /\ last' = StepRec("skip", ants[idx], None, 0, FALSE, <<0, 0, 0>>, None)
  /\ UNCHANGED <<rulesets, cap, ants, world, nextId, pc, passLen, tick,
                 failure, preTrim, created, processed, writers, everHalted,
                 tickLog>>
  /\ UNCHANGED notEngine

\* show_ant_indicator fails: the error is propagated.
StepEffectFail ==
  /\ pc = "pass"
  /\ idx <= PassEnd(passLen, ants)
  /\ Running(ants[idx])
  /\ pc' = Propagate(pc)
  /\ failure' = "effect"
  /\ last' = StepRec("fail", ants[idx], None, 0, FALSE, <<0, 0, 0>>, None)
  /\ UNCHANGED <<rulesets, cap, ants, world, nextId, idx, passLen, tick,
                 preTrim, created, processed, writers, everHalted,
                 tickLog>>
  /\ UNCHANGED notEngine

\* get_block fails: the error is propagated.
StepReadFail ==
  /\ pc = "pass"
  /\ idx <= PassEnd(passLen, ants)
  /\ Running(ants[idx])
  /\ pc' = Propagate(pc)
  /\ failure' = "read"
  /\ last' = StepRec("fail", ants[idx], None, 0, FALSE, <<0, 0, 0>>, None)
  /\ UNCHANGED <<rulesets, cap, ants, world, nextId, idx, passLen, tick,
                 preTrim, created, processed, writers, everHalted,
                 tickLog>>
  /\ UNCHANGED notEngine

\* The block is read and no rule matches: the ant halts.
StepHalt ==
  /\ pc = "pass"
  /\ idx <= PassEnd(passLen, ants)
  /\ Running(ants[idx])
  /\ \E block \in Readable(world, ants[idx].position) :
       /\ find_rule(RulesOf(rulesets, ants[idx]), ants[idx], block) = 0
       /\ world' = WorldSet(world, ants[idx].position, block)
       /\ last' = StepRec("halt", ants[idx], block, 0, FALSE, <<0, 0, 0>>, None)
  /\ ants' = [ants EXCEPT ![idx] = Halt(@)]
  /\ everHalted' = everHalted \cup { a.id : a \in { ants'[i] : i \in { j \in 1..Len(ants') : ants'[j].halted } } }
  /\ processed' = processed \cup {ants[idx].id}
  /\ idx' = idx + 1
  /\ UNCHANGED <<rulesets, cap, nextId, pc, passLen, tick, failure, preTrim,
                 created, writers>>
  /\ tickLog' = [tickLog EXCEPT !.visited = Append(@, ants[idx].id)]
  /\ UNCHANGED notEngine

\* The block is read and a rule matches: write, update, move, spawn.
StepApply ==
  /\ pc = "pass"
  /\ idx <= PassEnd(passLen, ants)
  /\ Running(ants[idx])
  /\ \E block \in Readable(world, ants[idx].position) :
       LET ant == ants[idx]
           rules == RulesOf(rulesets, ant)
           r == find_rule(rules, ant, block)
           t == Transition(ant, rules[r])
           seen == WorldSet(world, ant.position, block)
       IN /\ r # 0
          /\ world' = IF t.wblock = None THEN seen
                      ELSE WorldSet(seen, t.wpos, t.wblock)
          /\ writers' = IF t.wblock = None THEN writers
                        ELSE writers \cup {ant.id}
          /\ ants' = IF Len(rules[r].spawn) = 0
                     THEN [ants EXCEPT ![idx] = t.ant]
                     ELSE Append([ants EXCEPT ![idx] = t.ant],
                                 SpawnAnt(rules[r].spawn[1], ant.position, nextId))
          /\ nextId' = IF Len(rules[r].spawn) = 0 THEN nextId ELSE nextId + 1
          /\ created' = IF Len(rules[r].spawn) = 0 THEN created
                        ELSE created \cup {ants'[Len(ants')].id}
          /\ last' = StepRec("apply", ant, block, r, t.wblock # None, t.wpos,
                             t.wblock)
  /\ processed' = processed \cup {ants[idx].id}
  /\ idx' = idx + 1
  /\ UNCHANGED <<rulesets, cap, pc, passLen, tick, failure, preTrim,
                 everHalted>>
  /\ tickLog' = [visited |-> Append(tickLog.visited, ants[idx].id),
                 spawned |-> IF Len(ants') > Len(ants)
                             THEN tickLog.spawned \cup {ants'[Len(ants')].id}
                             ELSE tickLog.spawned]
  /\ UNCHANGED notEngine

\* The block is read, a rule with a to-block matches, set_block fails.
StepWriteFail ==
  /\ pc = "pass"
  /\ idx <= PassEnd(passLen, ants)
  /\ Running(ants[idx])
  /\ \E block \in Readable(world, ants[idx].position), landed \in BOOLEAN :
       LET ant == ants[idx]
           rules == RulesOf(rulesets, ant)
           r == find_rule(rules, ant, block)
           t == Transition(ant, rules[r])
           seen == WorldSet(world, ant.position, block)
       IN /\ r # 0
          /\ t.wblock # None
          /\ world' = IF landed THEN WorldSet(seen, t.wpos, t.wblock) ELSE seen
          /\ last' = StepRec("fail", ant, block, r, FALSE, t.wpos, t.wblock)
  /\ pc' = Propagate(pc)
  /\ failure' = "write"
  /\ processed' = processed \cup {ants[idx].id}
  /\ UNCHANGED <<rulesets, cap, ants, nextId, idx, passLen, tick, preTrim,
                 created, writers, everHalted>>
  /\ tickLog' = [tickLog EXCEPT !.visited = Append(@, ants[idx].id)]
  /\ UNCHANGED notEngine

\* Every ant of the pass was visited: sleep, then back to the top.
Sleep ==
  /\ pc = "pass"
  /\ idx > PassEnd(passLen, ants)
  /\ pc' = "loop"
  /\ last' = NoStep
  /\ UNCHANGED <<rulesets, cap, ants, world, nextId, idx, passLen, tick,
                 failure, preTrim, created, processed, writers, everHalted,
                 tickLog>>
  /\ UNCHANGED notEngine

Next ==
  \/ TickStart
  \/ Finish
  \/ SkipHalted
  \/ StepEffectFail
  \/ StepReadFail
  \/ StepHalt
  \/ StepApply
  \/ StepWriteFail
  \/ Sleep

Spec == Init /\ [][Next]_vars

\* ----------------------------------------------------------------- tokens
\* TokenKind::from: the kind of a lexeme.
TokenKind_from(string) ==
  CASE string = "/" -> "Slash"
    [] string = "," -> "Comma"
    [] string = "->" -> "Arrow"
    [] string = "+" -> "Plus"
    [] string = ";" -> "Semicolon"
    [] string = "end" -> "KwEnd"
    [] string = "set" -> "KwSet"
    [] string = "define" -> "KwDefine"
    [] string = "ant" -> "KwAnt"
    [] string = "ruleset" -> "KwRuleset"
    [] string = "use" -> "KwUse"
    [] string = "offset" -> "KwOffset"
    [] string = "direction" -> "KwDirection"
    [] string = "spawn" -> "KwSpawn"
    [] OTHER -> "Ident"

\* Kind of the token peek() shows at a cursor, "eof" past the last token.
PeekKind(toks, pos) ==
  IF pos > Len(toks) THEN "eof" ELSE TokenKind_from(toks[pos])

\* ---------------------------------------------------------------- strings
\* The lexemes of the inputs that begin with $.
starts_with_dollar(string) == string \in {"$x", "$X", "$y"}

remove_first_char(string) ==
  CASE string = "$x" -> "x"
    [] string = "$X" -> "X"
    [] string = "$y" -> "y"
    [] OTHER -> string

\* str::parse for the integer lexemes of the inputs.
IntLits == {"0", "1", "2", "5", "-1"}

IntValue(string) ==
  CASE string = "0" -> 0
    [] string = "1" -> 1
    [] string = "2" -> 2
    [] string = "5" -> 5
    [] string = "-1" -> -1

\* The lexemes of the inputs that parse as f64.
RealLits == IntLits \cup {"1.5"}

\* Results of the parsing functions: err is "" on success.
POk(pos, val) == [err |-> "", pos |-> pos, val |-> val]

PErr(msg) == [err |-> msg, pos |-> 0, val |-> None]

\* A slip: every lexeme the type rejects is reported as not a number.
parse_numeric_wrong(string, ty) ==
  IF string \in IntLits /\ (ty = "i32" \/ IntValue(string) >= 0)
  THEN POk(0, IntValue(string))
  ELSE PErr("expected number, found non-numeric identifier")

\* Parser::parse_numeric for a signed ("i32") or unsigned ("u64", "usize") type.
parse_numeric(string, ty) ==
  IF string \in IntLits /\ (ty = "i32" \/ IntValue(string) >= 0)
  THEN POk(0, IntValue(string))
  ELSE IF string \in RealLits THEN PErr("invalid number value")
  ELSE PErr("expected number, found non-numeric identifier")

\* Parser::parse_block over the block names, ignoring case; None if unknown.
parse_block(string) ==
  IF eq_ignore_ascii_case("air", string) THEN "AIR"
  ELSE IF eq_ignore_ascii_case("stone", string) THEN "STONE"
  ELSE None

\* Parser::parse_direction, ignoring case; None if unknown.
parse_direction(string) ==
  IF eq_ignore_ascii_case("east", string) THEN "East"
  ELSE IF eq_ignore_ascii_case("west", string) THEN "West"
  ELSE IF eq_ignore_ascii_case("south", string) THEN "South"
  ELSE IF eq_ignore_ascii_case("north", string) THEN "North"
  ELSE IF eq_ignore_ascii_case("up", string) THEN "Up"
  ELSE IF eq_ignore_ascii_case("down", string) THEN "Down"
  ELSE None

\* ----------------------------------------------------------------- parser
expect_token_kind(toks, pos, kind) ==
  IF PeekKind(toks, pos) = "eof" THEN PErr("expected token, found eof")
  ELSE IF PeekKind(toks, pos) # kind THEN PErr("expected token, found other")
  ELSE POk(pos + 1, toks[pos])

expect_list_end(toks, pos, end) ==
  IF PeekKind(toks, pos) = "eof" THEN PErr("expected list end, found eof")
  ELSE IF PeekKind(toks, pos) # end THEN PErr("expected list end, found other")
  ELSE POk(pos + 1, toks[pos])

\* A slip: the identifier is returned as written, as by a parser without macros.
expand_ident_wrong(symbols, ident) == POk(0, ident)

\* Parser::expand_ident: a $name becomes the text defined for name.
expand_ident(symbols, ident) ==
  IF ~starts_with_dollar(ident) THEN POk(0, ident)
  ELSE IF remove_first_char(ident) \notin DOMAIN symbols
  THEN PErr("undefined symbol")
  ELSE POk(0, symbols[remove_first_char(ident)])

expect_ident_no_expand(toks, pos) == expect_token_kind(toks, pos, "Ident")

\* The ? of the code: the error of a result is returned at once, and what
\* follows is computed from the value of a success.
AndThen(res, F(_)) ==
  CHOOSE out \in { IF r.err # "" THEN r ELSE F(r) : r \in {res} } : TRUE

\* A slip: the identifier is taken as written.
expect_ident_wrong(toks, pos, symbols) == expect_ident_no_expand(toks, pos)

expect_ident(toks, pos, symbols) ==
  AndThen(expect_ident_no_expand(toks, pos), LAMBDA r :
  AndThen(expand_ident(symbols, r.val), LAMBDA e :
  POk(r.pos, e.val)))

expect_i32(toks, pos, symbols) ==
  AndThen(expect_ident(toks, pos, symbols), LAMBDA r :
  AndThen(parse_numeric(r.val, "i32"), LAMBDA n :
  POk(r.pos, n.val)))

\* What expect_rule makes of one list item: a state name is kept as written,
\* a block or a direction is looked up.
ConvertItem(slot, text) ==
  CASE slot = "state" -> POk(0, text)
    [] slot = "block" ->
         IF parse_block(text) = None THEN PErr("unknown block")
         ELSE POk(0, parse_block(text))
    [] slot = "direction" ->
         IF parse_direction(text) = None THEN PErr("unknown direction")
         ELSE POk(0, parse_direction(text))

\* The for loop over ListParser::next: the items of a list separated by
\* slashes, each expanded and converted as it is yielded. An item the input
\* ends after is dropped.
RECURSIVE ListItems(_, _, _, _, _, _)
ListItems(toks, pos, symbols, slot, first, acc) ==
  IF PeekKind(toks, pos) = "eof" THEN PErr("expected token, found eof")
  ELSE IF PeekKind(toks, pos) # "Ident"
  THEN IF first THEN POk(pos, acc) ELSE PErr("expected ident, found other")
  ELSE IF PeekKind(toks, pos + 1) = "eof" THEN POk(pos + 1, acc)
  ELSE AndThen(expand_ident(symbols, toks[pos]), LAMBDA e :
       AndThen(ConvertItem(slot, e.val), LAMBDA c :
       IF PeekKind(toks, pos + 1) = "Slash"
       THEN ListItems(toks, pos + 2, symbols, slot, FALSE, acc \cup {c.val})
       ELSE POk(pos + 1, acc \cup {c.val})))

\* Parser::try_ident: an expanded identifier if one is next, else nothing.
try_ident(toks, pos, symbols) ==
  IF PeekKind(toks, pos) # "Ident" THEN POk(pos, <<>>)
  ELSE AndThen(expand_ident(symbols, toks[pos]), LAMBDA e :
       POk(pos + 1, <<e.val>>))

\* A slip: a second use silently replaces the first.
AntUse_wrong(toks, pos, ruleset) ==
  AndThen(expect_token_kind(toks, pos, "Ident"), LAMBDA n :
  AndThen(expect_token_kind(toks, n.pos, "Semicolon"), LAMBDA e :
  POk(e.pos, <<n.val>>)))

\* try_ant, the use arm; pos is the cursor after the keyword and an Option
\* is a sequence of length at most one.
AntUse(toks, pos, ruleset) ==
  AndThen(expect_token_kind(toks, pos, "Ident"), LAMBDA n :
  AndThen(expect_token_kind(toks, n.pos, "Semicolon"), LAMBDA e :
  IF Len(ruleset) > 0 THEN PErr("cannot use multiple rulesets for ant")
  ELSE POk(e.pos, <<n.val>>)))

\* try_ant, the offset arm.
AntOffset(toks, pos, symbols, offset) ==
  AndThen(expect_i32(toks, pos, symbols), LAMBDA x :
  AndThen(expect_token_kind(toks, x.pos, "Comma"), LAMBDA c1 :
  AndThen(expect_i32(toks, c1.pos, symbols), LAMBDA y :
  AndThen(expect_token_kind(toks, y.pos, "Comma"), LAMBDA c2 :
  AndThen(expect_i32(toks, c2.pos, symbols), LAMBDA z :
  AndThen(expect_token_kind(toks, z.pos, "Semicolon"), LAMBDA e :
  IF Len(offset) > 0 THEN PErr("duplicate attribute offset for ant")
  ELSE POk(e.pos, << <<x.val, y.val, z.val>> >>)))))))

\* try_ant, the facing arm.
AntFacing(toks, pos, facing) ==
  AndThen(expect_token_kind(toks, pos, "Ident"), LAMBDA n :
  AndThen(expect_token_kind(toks, n.pos, "Semicolon"), LAMBDA e :
  IF Len(facing) > 0 THEN PErr("duplicate attribute facing for ant")
  ELSE IF parse_direction(n.val) = None THEN PErr("unknown direction")
  ELSE POk(e.pos, <<parse_direction(n.val)>>)))

\* try_ant, one turn of the loop over the attributes: the match on the
\* kind of the next token.
AntClause(toks, pos, symbols, ant) ==
  IF PeekKind(toks, pos) = "KwUse"
  THEN AndThen(AntUse(toks, pos + 1, ant.ruleset), LAMBDA u :
       POk(u.pos, [ant EXCEPT !.ruleset = u.val]))
  ELSE IF PeekKind(toks, pos) = "KwOffset"
  THEN AndThen(AntOffset(toks, pos + 1, symbols, ant.offset), LAMBDA o :
       POk(o.pos, [ant EXCEPT !.offset = o.val]))
  ELSE IF PeekKind(toks, pos) = "KwFacing"
  THEN AndThen(AntFacing(toks, pos + 1, ant.facing), LAMBDA f :
       POk(f.pos, [ant EXCEPT !.facing = f.val]))
  ELSE PErr("expected attribute or end")

\* try_ant, after the loop: the end keyword, the ruleset, the defaults.
AntEnd(toks, pos, ant) ==
  AndThen(expect_token_kind(toks, pos, "KwEnd"), LAMBDA e :
  IF Len(ant.ruleset) = 0 THEN PErr("missing ruleset for ant")
  ELSE POk(e.pos,
           AntProto(ant.ruleset[1],
                    IF Len(ant.offset) = 0 THEN <<0, 0, 0>> ELSE ant.offset[1],
                    IF Len(ant.facing) = 0 THEN DEFAULT_DIRECTION
                    ELSE ant.facing[1])))

\* expect_rule, the optional target block.
RuleToBlock(toks, pos, symbols) ==
  AndThen(try_ident(toks, pos, symbols), LAMBDA t :
  IF Len(t.val) = 0 THEN POk(t.pos, None)
  ELSE IF parse_block(t.val[1]) = None THEN PErr("unknown block")
  ELSE POk(t.pos, parse_block(t.val[1])))

\* expect_rule, the optional target facing.
RuleToFacing(toks, pos, symbols) ==
  AndThen(try_ident(toks, pos, symbols), LAMBDA t :
  IF Len(t.val) = 0 THEN POk(t.pos, None)
  ELSE IF parse_direction(t.val[1]) = None THEN PErr("unknown direction")
  ELSE POk(t.pos, parse_direction(t.val[1])))

\* expect_rule, from its first token to the target facing.
RuleHead(toks, pos, symbols) ==
  AndThen(ListItems(toks, pos, symbols, "state", TRUE, {}), LAMBDA fs :
  AndThen(expect_list_end(toks, fs.pos, "Comma"), LAMBDA e1 :
  AndThen(ListItems(toks, e1.pos, symbols, "block", TRUE, {}), LAMBDA fb :
  AndThen(expect_list_end(toks, fb.pos, "Comma"), LAMBDA e2 :
  AndThen(ListItems(toks, e2.pos, symbols, "direction", TRUE, {}), LAMBDA ff :
  AndThen(expect_list_end(toks, ff.pos, "Arrow"), LAMBDA e3 :
  AndThen(expect_ident(toks, e3.pos, symbols), LAMBDA ts :
  AndThen(expect_list_end(toks, ts.pos, "Comma"), LAMBDA e4 :
  AndThen(RuleToBlock(toks, e4.pos, symbols), LAMBDA tb :
  AndThen(expect_list_end(toks, tb.pos, "Comma"), LAMBDA e5 :
  AndThen(RuleToFacing(toks, e5.pos, symbols), LAMBDA tf :
  POk(tf.pos, Rule(fs.val, fb.val, ff.val, ts.val, tb.val, tf.val, <<>>)))))))))))))

\* Parser::try_property_set: nothing unless set is next; the name is taken
\* as written, the value is expanded.
try_property_set(toks, pos, symbols) ==
  IF PeekKind(toks, pos) # "KwSet" THEN POk(pos, <<>>)
  ELSE AndThen(expect_ident_no_expand(toks, pos + 1), LAMBDA p :
       AndThen(expect_ident(toks, p.pos, symbols), LAMBDA v :
       POk(v.pos, << <<p.val, v.val>> >>)))

\* A slip: a second set of a property silently replaces the first.
update_property_wrong(properties, property, value) ==
  IF eq_ignore_ascii_case(property, "delay")
  THEN AndThen(parse_numeric(value, "u64"), LAMBDA n :
       POk(0, [properties EXCEPT !.delay = <<n.val>>]))
  ELSE IF eq_ignore_ascii_case(property, "cap")
  THEN AndThen(parse_numeric(value, "usize"), LAMBDA n :
       POk(0, [properties EXCEPT !.cap = <<n.val>>]))
  ELSE PErr("unknown property")

\* Parser::update_property: the value is parsed before the duplicate is
\* looked for.
update_property(properties, property, value) ==
  IF eq_ignore_ascii_case(property, "delay")
  THEN AndThen(parse_numeric(value, "u64"), LAMBDA n :
       IF Len(properties.delay) > 0 THEN PErr("duplicate property")
       ELSE POk(0, [properties EXCEPT !.delay = <<n.val>>]))
  ELSE IF eq_ignore_ascii_case(property, "cap")
  THEN AndThen(parse_numeric(value, "usize"), LAMBDA n :
       IF Len(properties.cap) > 0 THEN PErr("duplicate property")
       ELSE POk(0, [properties EXCEPT !.cap = <<n.val>>]))
  ELSE PErr("unknown property")

\* Parser::try_symbol_define: nothing unless define is next; the name is
\* taken as written, the definition is expanded.
try_symbol_define(toks, pos, symbols) ==
  IF PeekKind(toks, pos) # "KwDefine" THEN POk(pos, <<>>)
  ELSE AndThen(expect_ident_no_expand(toks, pos + 1), LAMBDA n :
       IF ~starts_with_dollar(n.val)
       THEN PErr("symbol name must begin with $")
       ELSE AndThen(expect_ident(toks, n.pos, symbols), LAMBDA d :
            POk(d.pos, << <<remove_first_char(n.val), d.val>> >>)))

\* Parser::ensure_ruleset_exists.
ensure_ruleset_exists(rulesetSeq, ant) ==
  \E i \in 1..Len(rulesetSeq) :
    eq_ignore_ascii_case(rulesetSeq[i].name, ant.ruleset)

\* The spawn prototypes of the rules of the rulesets.
SpawnsOf(rulesetSeq) ==
  UNION { UNION { { rulesetSeq[i].rules[j].spawn[k] :
                      k \in 1..Len(rulesetSeq[i].rules[j].spawn) } :
                  j \in 1..Len(rulesetSeq[i].rules) } :
          i \in 1..Len(rulesetSeq) }

\* A slip: a definition of a defined symbol silently replaces it.
DefineSymbol_wrong(symbols, symbol, definition) ==
  POk(0, [n \in DOMAIN symbols \cup {symbol} |->
            IF n = symbol THEN definition ELSE symbols[n]])

\* parse_schema, what becomes of a definition: the table with it, or the error.
DefineSymbol(symbols, symbol, definition) ==
  IF symbol \in DOMAIN symbols THEN PErr("redefinition of symbol")
  ELSE POk(0, [n \in DOMAIN symbols \cup {symbol} |->
                 IF n = symbol THEN definition ELSE symbols[n]])

\* A slip: ruleset names are compared as written.
DuplicateRuleset_wrong(rulesetSeq, name) ==
  \E i \in 1..Len(rulesetSeq) : rulesetSeq[i].name = name

\* parse_schema, whether a ruleset of that name, ignoring case, is there.
DuplicateRuleset(rulesetSeq, name) ==
  \E i \in 1..Len(rulesetSeq) : eq_ignore_ascii_case(rulesetSeq[i].name, name)

\* A slip: only the top-level prototypes are looked up.
CheckRulesets_wrong(antSeq, rulesetSeq) ==
  IF \E i \in 1..Len(antSeq) : ~ensure_ruleset_exists(rulesetSeq, antSeq[i])
  THEN "unknown ruleset"
  ELSE "ok"

\* parse_schema, after the loop: the ruleset of every top-level prototype and
\* of every spawn prototype is looked up.
CheckRulesets(antSeq, rulesetSeq) ==
  IF \E i \in 1..Len(antSeq) : ~ensure_ruleset_exists(rulesetSeq, antSeq[i])
  THEN "unknown ruleset"
  ELSE IF \E sp \in SpawnsOf(rulesetSeq) : ~ensure_ruleset_exists(rulesetSeq, sp)
  THEN "unknown ruleset"
  ELSE "ok"

\* ------------------------------------------------------------ parser runs
\* The statements the inputs are made of, as the lexemes Tokens yields.
StatementPool ==
  { <<"set", "delay", "5">>,
    <<"set", "DELAY", "1">>,
    <<"set", "Cap", "2">>,
    <<"set", "speed", "1">>,
    <<"set", "cap", "-1">>,
    <<"set", "cap", "1.5">>,
    <<"set", "delay", "fast">>,
    <<"define", "$x", "stone">>,
    <<"define", "$x", "air">>,
    <<"define", "$X", "north">>,
    <<"define", "$y", "$x">>,
    <<"define", "x", "stone">>,
    <<"ant", "use", "r", ";", "end">>,
    <<"ant", "offset", "1", ",", "0", ",", "-1", ";", "use", "R", ";", "end">>,
    <<"ant", "use", "r", ";", "use", "r", ";", "end">>,
    <<"ant", "offset", "0", ",", "0", ",", "0", ";", "end">>,
    <<"ant", "use", "r", ";", "offset", "1", ",", "0", ",", "0", ";",
      "offset", "1", ",", "0", ",", "0", ";", "end">>,
    <<"ant", "use", "r", ";", "facing", "north", ";", "end">>,
    <<"ant", "facing", "up", ";", "facing", "up", ";", "use", "r", ";", "end">>,
    <<"ant", "use", "q", ";", "end">>,
    <<"ant", "offset", "1.5", ",", "0", ",", "0", ";", "use", "r", ";", "end">>,
    <<"ant", "offset", "0", ",", "north", ",", "0", ";", "use", "r", ";", "end">>,
    <<"ant", "use", "r", ";", "direction", "north", ";", "end">>,
    <<"ruleset", "r", "$x", "/", "initial", ",", "$x", ",", "->",
      "$x", ",", "$x", ",", ";", "end">>,
    <<"ruleset", "q", ",", ",", "$X", "->", "initial", ",", ",", "$X", ";", "end">>,
    <<"ruleset", "R", "S1", ",", ",", "->", "S1", ",", ",", ";", "end">>,
    <<"ruleset", "r", ",", ",", "->", "initial", ",", ",",
      "+", "spawn", "ant", "use", "q", ";", "end", ";", "end">>,
    <<"ruleset", "r", ",", "air", ",", "->", "s1", ",", "Stone", ",", "NORTH",
      "+", "spawn", "ant", "use", "R", ";", "end", ";", "end">>,
    <<"ruleset", "q", "end">>,
    <<"end">> }

\* The concatenation of a sequence of statements.
RECURSIVE Concat(_)
Concat(stmts) ==
  IF Len(stmts) = 0 THEN <<>> ELSE Head(stmts) \o Concat(Tail(stmts))

\* The inputs: up to MaxStmts statements in any order.
Sources ==
  { Concat(stmts) : stmts \in UNION { [1..n -> StatementPool] : n \in 0..MaxStmts } }

PState ==
  [pos |-> p_pos, symbols |-> p_symbols, ants |-> p_ants,
   rulesets |-> p_rulesets, properties |-> p_properties, mode |-> p_mode,
   ant |-> p_ant, name |-> p_name, rules |-> p_rules]

InitParse ==
  /\ p_tokens \in Sources
  /\ p_pos = PStart.pos
  /\ p_symbols = PStart.symbols
  /\ p_ants = PStart.ants
  /\ p_rulesets = PStart.rulesets
  /\ p_properties = PStart.properties
  /\ p_mode = PStart.mode
  /\ p_ant = PStart.ant
  /\ p_name = PStart.name
  /\ p_rules = PStart.rules
  /\ p_rule = Rule({}, {}, {}, "", None, None, <<>>)
  /\ p_block = 0
  /\ p_result = "running"
  /\ p_prev = PStart
  /\ p_kind = "none"
  /\ EngineIdle
  /\ WorldIdle
  /\ LexIdle

\* The parser is at the top of a loop, in the given mode.
PAt(mode) == p_result = "running" /\ p_mode = mode

\* The step returns the error; nothing else matters from then on.
PStop(kind, msg) ==
  /\ p_prev' = PState
  /\ p_kind' = kind
  /\ p_result' = msg
  /\ UNCHANGED <<p_tokens, p_pos, p_symbols, p_ants, p_rulesets, p_properties,
                 p_mode, p_ant, p_name, p_rules, p_rule, p_block>>
  /\ UNCHANGED notParse

\* The step succeeds and leaves the cursor at pos.
PStep(kind, pos) ==
  /\ p_prev' = PState
  /\ p_kind' = kind
  /\ p_result' = "running"
  /\ p_pos' = pos
  /\ UNCHANGED p_tokens
  /\ UNCHANGED notParse

\* parse_schema: a set statement.
PSet ==
  /\ PAt("top")
  /\ PeekKind(p_tokens, p_pos) = "KwSet"
  /\ \E t \in { AndThen(try_property_set(p_tokens, p_pos, p_symbols), LAMBDA ps :
                AndThen(update_property(p_properties, ps.val[1][1], ps.val[1][2]),
                        LAMBDA u : POk(ps.pos, u.val))) } :
       IF t.err # "" THEN PStop("set", t.err)
       ELSE /\ PStep("set", t.pos)
            /\ p_properties' = t.val
            /\ UNCHANGED <<p_symbols, p_ants, p_rulesets, p_mode, p_ant,
                           p_name, p_rules, p_rule, p_block>>

\* parse_schema: a define statement.
PDefine ==
  /\ PAt("top")
  /\ PeekKind(p_tokens, p_pos) = "KwDefine"
  /\ \E t \in { AndThen(try_symbol_define(p_tokens, p_pos, p_symbols), LAMBDA sd :
                AndThen(DefineSymbol(p_symbols, sd.val[1][1], sd.val[1][2]),
                        LAMBDA d : POk(sd.pos, d.val))) } :
       IF t.err # "" THEN PStop("define", t.err)
       ELSE /\ PStep("define", t.pos)
            /\ p_symbols' = t.val
            /\ UNCHANGED <<p_ants, p_rulesets, p_properties, p_mode, p_ant,
                           p_name, p_rules, p_rule, p_block>>

\* try_ant: the ant keyword opens a block.
PAntBegin ==
  /\ PAt("top")
  /\ PeekKind(p_tokens, p_pos) = "KwAnt"
  /\ PStep("ant_begin", p_pos + 1)
  /\ p_mode' = "ant"
  /\ p_ant' = NoAnt
  /\ p_block' = p_pos
  /\ UNCHANGED <<p_symbols, p_ants, p_rulesets, p_properties, p_name, p_rules,
                 p_rule>>

\* try_ant: one attribute of the block, of a top-level ant or of a spawn.
PAntClause ==
  /\ p_result = "running"
  /\ p_mode \in {"ant", "spawn"}
  /\ PeekKind(p_tokens, p_pos) \notin {"eof", "KwEnd"}
  /\ \E c \in { AntClause(p_tokens, p_pos, p_symbols, p_ant) } :
       IF c.err # "" THEN PStop("ant_clause", c.err)
       ELSE /\ PStep("ant_clause", c.pos)
            /\ p_ant' = c.val
            /\ UNCHANGED <<p_symbols, p_ants, p_rulesets, p_properties, p_mode,
                           p_name, p_rules, p_rule, p_block>>

\* try_ant and parse_schema: the block of a top-level ant ends.
PAntEnd ==
  /\ PAt("ant")
  /\ PeekKind(p_tokens, p_pos) \in {"eof", "KwEnd"}
  /\ \E a \in { AntEnd(p_tokens, p_pos, p_ant) } :
       IF a.err # "" THEN PStop("ant_end", a.err)
       ELSE /\ PStep("ant_end", a.pos)
            /\ p_ants' = Append(p_ants, a.val)
            /\ p_mode' = "top"
            /\ UNCHANGED <<p_symbols, p_rulesets, p_properties, p_ant, p_name,
                           p_rules, p_rule, p_block>>

\* try_ant and expect_rule: the block of a spawn ends, and the rule with it.
PSpawnEnd ==
  /\ PAt("spawn")
  /\ PeekKind(p_tokens, p_pos) \in {"eof", "KwEnd"}
  /\ \E a \in { AndThen(AntEnd(p_tokens, p_pos, p_ant), LAMBDA ae :
                AndThen(expect_list_end(p_tokens, ae.pos, "Semicolon"),
                        LAMBDA e : POk(e.pos, ae.val))) } :
       IF a.err # "" THEN PStop("spawn_end", a.err)
       ELSE /\ PStep("spawn_end", a.pos)
            /\ p_rules' = Append(p_rules, [p_rule EXCEPT !.spawn = <<a.val>>])
            /\ p_mode' = "ruleset"
            /\ UNCHANGED <<p_symbols, p_ants, p_rulesets, p_properties, p_ant,
                           p_name, p_rule, p_block>>

\* try_ruleset: the ruleset keyword and the name.
PRulesetBegin ==
  /\ PAt("top")
  /\ PeekKind(p_tokens, p_pos) = "KwRuleset"
  /\ \E n \in { expect_token_kind(p_tokens, p_pos + 1, "Ident") } :
       IF n.err # "" THEN PStop("ruleset_begin", n.err)
       ELSE /\ PStep("ruleset_begin", n.pos)
            /\ p_name' = n.val
            /\ p_rules' = <<>>
            /\ p_mode' = "ruleset"
            /\ UNCHANGED <<p_symbols, p_ants, p_rulesets, p_properties, p_ant,
                           p_rule, p_block>>

\* expect_rule: a rule, to its end or to the ant keyword of its spawn clause.
PRule ==
  /\ PAt("ruleset")
  /\ PeekKind(p_tokens, p_pos) \notin {"eof", "KwEnd"}
  /\ \E h \in { RuleHead(p_tokens, p_pos, p_symbols) } :
       IF h.err # "" THEN PStop("rule", h.err)
       ELSE IF PeekKind(p_tokens, h.pos) # "Plus"
       THEN \E e \in { expect_list_end(p_tokens, h.pos, "Semicolon") } :
              IF e.err # "" THEN PStop("rule", e.err)
              ELSE /\ PStep("rule", e.pos)
                   /\ p_rules' = Append(p_rules, h.val)
                   /\ UNCHANGED <<p_symbols, p_ants, p_rulesets, p_properties,
                                  p_mode, p_ant, p_name, p_rule, p_block>>
       ELSE \E k \in { expect_token_kind(p_tokens, h.pos + 1, "KwSpawn") } :
              IF k.err # "" THEN PStop("rule", k.err)
              ELSE IF PeekKind(p_tokens, k.pos) # "KwAnt"
              THEN PStop("rule", "expected ant")
              ELSE /\ PStep("rule_spawn", k.pos + 1)
                   /\ p_rule' = h.val
                   /\ p_ant' = NoAnt
                   /\ p_block' = k.pos
                   /\ p_mode' = "spawn"
                   /\ UNCHANGED <<p_symbols, p_ants, p_rulesets, p_properties,
                                  p_name, p_rules>>

\* try_ruleset and parse_schema: the ruleset ends and is kept unless one of
\* its name is there.
PRulesetEnd ==
  /\ PAt("ruleset")
  /\ PeekKind(p_tokens, p_pos) \in {"eof", "KwEnd"}
  /\ \E e \in { expect_token_kind(p_tokens, p_pos, "KwEnd") } :
       IF e.err # "" THEN PStop("ruleset_end", e.err)
       ELSE IF DuplicateRuleset(p_rulesets, p_name)
       THEN PStop("ruleset_end", "duplicate ruleset")
       ELSE /\ PStep("ruleset_end", e.pos)
            /\ p_rulesets' = Append(p_rulesets, [name |-> p_name, rules |-> p_rules])
            /\ p_mode' = "top"
            /\ UNCHANGED <<p_symbols, p_ants, p_properties, p_ant, p_name,
                           p_rules, p_rule, p_block>>

\* parse_schema: a token no statement begins with.
PUnexpected ==
  /\ PAt("top")
  /\ PeekKind(p_tokens, p_pos) \notin {"eof", "KwSet", "KwDefine", "KwAnt", "KwRuleset"}
  /\ PStop("unexpected", "expected ruleset or ant")

\* parse_schema: the input is read; the rulesets named are looked up and the
\* Schema is returned.
PFinish ==
  /\ PAt("top")
  /\ PeekKind(p_tokens, p_pos) = "eof"
  /\ PStop("finish", CheckRulesets(p_ants, p_rulesets))

NextParse ==
  \/ PSet
  \/ PDefine
  \/ PAntBegin
  \/ PAntClause
  \/ PAntEnd
  \/ PSpawnEnd
  \/ PRulesetBegin
  \/ PRule
  \/ PRulesetEnd
  \/ PUnexpected
  \/ PFinish

SpecParse == InitParse /\ [][NextParse]_vars

\* ------------------------------------------------------------ World runs
MaxRadius == 1

MaxWorldSteps == 3

Lifetimes == {0, 2, 6000}

TimeSteps == {1, 3, CACHE_COOLDOWN}

WLocs == { <<0, 0, 0>>, <<1, 0, 0>>, <<0, 17, 0>> }

InitWorld ==
  /\ w_radius \in 0..MaxRadius
  /\ w_lifetime \in Lifetimes
  /\ w_mc \in { [q \in WLocs |-> b] : b \in Blocks }
  /\ w_entries = [q \in {} |-> None]
  /\ w_next_clean = CACHE_COOLDOWN
  /\ w_now = 0
  /\ w_pc = "ready"
  /\ w_steps = 0
  /\ w_last = NoOp
  /\ w_expect = [q \in {} |-> None]
  /\ EngineIdle
  /\ ParseIdle
  /\ LexIdle

WorldReady == w_pc = "ready" /\ w_steps < MaxWorldSteps

\* Time passes between two operations.
WAdvance ==
  /\ WorldReady
  /\ \E d \in TimeSteps : w_now' = w_now + d
  /\ w_steps' = w_steps + 1
  /\ w_last' = [NoOp EXCEPT !.op = "advance"]
  /\ UNCHANGED <<w_radius, w_lifetime, w_mc, w_entries, w_next_clean, w_pc,
                 w_expect>>
  /\ UNCHANGED notWorld

\* get_block with the cache disabled: the connection is asked.
WGetDirect ==
  /\ WorldReady
  /\ ~Cache_enabled(w_radius, w_lifetime)
  /\ \E loc \in WLocs, ok \in BOOLEAN :
       /\ w_last' = [op |-> "get", loc |-> loc,
                     block |-> IF ok THEN McBlock(w_mc, loc) ELSE None,
                     ok |-> ok]
       /\ w_pc' = IF ok THEN "ready" ELSE "failed"
  /\ w_steps' = w_steps + 1
  /\ UNCHANGED <<w_radius, w_lifetime, w_mc, w_entries, w_next_clean, w_now,
                 w_expect>>
  /\ UNCHANGED notWorld

\* get_block answered by an unexpired cache entry.
WGetHit ==
  /\ WorldReady
  /\ Cache_enabled(w_radius, w_lifetime)
  /\ \E loc \in WLocs :
       LET got == Cache_get(w_radius, w_lifetime, w_entries, w_now, loc)
       IN /\ got.block # None
          /\ w_entries' = got.entries
          /\ w_last' = [op |-> "get", loc |-> loc, block |-> got.block, ok |-> TRUE]
  /\ w_steps' = w_steps + 1
  /\ UNCHANGED <<w_radius, w_lifetime, w_mc, w_next_clean, w_now, w_pc,
                 w_expect>>
  /\ UNCHANGED notWorld

\* get_block on a miss: clean, fetch the chunk, cache it, answer from it.
WGetMiss ==
  /\ WorldReady
  /\ Cache_enabled(w_radius, w_lifetime)
  /\ \E loc \in WLocs, ok \in BOOLEAN :
       LET got == Cache_get(w_radius, w_lifetime, w_entries, w_now, loc)
           cleaned == Cache_clean(w_radius, w_lifetime, got.entries,
                                  w_next_clean, w_now, loc)
       IN /\ got.block = None
          /\ w_next_clean' = cleaned.next_clean
          /\ w_entries' = IF ok
                          THEN InsertChunk(w_radius, w_lifetime, cleaned.entries,
                                           w_now, loc, w_mc)
                          ELSE cleaned.entries
          /\ w_last' = [op |-> "get", loc |-> loc,
                        block |-> IF ok THEN McBlock(w_mc, loc) ELSE None,
                        ok |-> ok]
          /\ w_pc' = IF ok THEN "ready" ELSE "failed"
  /\ w_steps' = w_steps + 1
  /\ UNCHANGED <<w_radius, w_lifetime, w_mc, w_now, w_expect>>
  /\ UNCHANGED notWorld

\* set_block of the block the cache already holds: nothing is sent.
WSetSkip ==
  /\ WorldReady
  /\ \E loc \in WLocs, block \in Blocks :
       LET got == Cache_get(w_radius, w_lifetime, w_entries, w_now, loc)
       IN /\ got.block = block
          /\ w_entries' = got.entries
          /\ w_last' = [op |-> "set", loc |-> loc, block |-> block, ok |-> TRUE]
          /\ w_expect' = WorldSet(w_expect, loc, block)
  /\ w_steps' = w_steps + 1
  /\ UNCHANGED <<w_radius, w_lifetime, w_mc, w_next_clean, w_now, w_pc>>
  /\ UNCHANGED notWorld

\* set_block otherwise: clean, insert into the cache, send to the connection.
WSetWrite ==
  /\ WorldReady
  /\ \E loc \in WLocs, block \in Blocks, ok \in BOOLEAN :
       LET got == Cache_get(w_radius, w_lifetime, w_entries, w_now, loc)
           cached == SetBlockCache(w_radius, w_lifetime, got.entries,
                                   w_next_clean, w_now, loc, block)
       IN /\ got.block # block
          /\ w_entries' = cached.entries
          /\ w_next_clean' = cached.next_clean
          /\ w_mc' = IF ok THEN WorldSet(w_mc, loc, block) ELSE w_mc
          /\ w_last' = [op |-> "set", loc |-> loc, block |-> block, ok |-> ok]
          /\ w_expect' = IF ok THEN WorldSet(w_expect, loc, block) ELSE w_expect
          /\ w_pc' = IF ok THEN "ready" ELSE "failed"
  /\ w_steps' = w_steps + 1
  /\ UNCHANGED <<w_radius, w_lifetime, w_now>>
  /\ UNCHANGED notWorld

NextWorld ==
  \/ WAdvance
  \/ WGetDirect
  \/ WGetHit
  \/ WGetMiss
  \/ WSetSkip
  \/ WSetWrite

SpecWorld == InitWorld /\ [][NextWorld]_vars

\* C12: a get_block that succeeds returns the block of the latest set_block
\* that succeeded on the same cell, with the cache enabled or disabled and
\* whether or not the cached entry has expired meanwhile.
C12_ReadAfterWrite ==
  (w_last.op = "get" /\ w_last.ok /\ w_last.loc \in DOMAIN w_expect) =>
    w_last.block = w_expect[w_last.loc]

\* A write that changed the cell, a clock advance past the entry's lifetime
\* and a read of the cell, with the cache enabled.
C12_Witness ==
  /\ w_last.op = "get"
  /\ w_last.ok
  /\ Cache_enabled(w_radius, w_lifetime)
  /\ w_last.loc \in DOMAIN w_expect
  /\ w_last.block = "STONE"
  /\ w_last.loc \in DOMAIN w_entries
  /\ w_entries[w_last.loc].expiration >= w_now
  /\ w_now > w_lifetime
  /\ w_now < CACHE_COOLDOWN

TypeOK ==
  /\ pc \in {"loop", "pass", "done", "failed"}
  /\ \A i \in 1..Len(ants) : ants[i].facing \in Direction /\ ants[i].state \in States

\* ------------------------------------------------ predicates of the claims
\* A from-set admits a value when it is empty or contains the value.
SlotAdmits(set, x) == set = {} \/ x \in set

\* The three-slot predicate of rule resolution.
AllSlotsAdmit(rule, state, block, facing) ==
  /\ SlotAdmits(rule.from_state, state)
  /\ SlotAdmits(rule.from_block, block)
  /\ SlotAdmits(rule.from_facing, facing)

\* Lowest index of a rule all of whose slots admit the values, 0 if none.
LowestAdmitting(rules, state, block, facing) ==
  LET hits == { i \in 1..Len(rules) : AllSlotsAdmit(rules[i], state, block, facing) }
  IN IF hits = {} THEN 0 ELSE CHOOSE i \in hits : \A j \in hits : i <= j

\* The latest step resolved a rule for an ant (it matched or it halted).
Resolved == last.kind \in {"apply", "halt"}

LastRules == RulesOf(rulesets, last.before)

\* C1: the rule applied to an ant is the lowest-index rule of its ruleset
\* whose state, block and facing predicates all admit the ant's current
\* values, and the ant halts only when there is no such rule.
C1_FirstMatchWins ==
  Resolved =>
    last.rule = LowestAdmitting(LastRules, last.before.state, last.block,
                                last.before.facing)

\* C2: a rule applied to an ant never has a non-empty from-set, in any of the
\* three slots, that excludes the ant's current value for that slot.
C2_ExcludingRuleNeverApplied ==
  last.kind = "apply" =>
    /\ SlotAdmits(LastRules[last.rule].from_state, last.before.state)
    /\ SlotAdmits(LastRules[last.rule].from_block, last.block)
    /\ SlotAdmits(LastRules[last.rule].from_facing, last.before.facing)

\* C3: an empty from-set admits every value: whenever rule i has an empty
\* from-set in some slot and its other slots admit the ant's values, the
\* resolution finds a rule at index i or earlier; in particular a rule with
\* three empty from-sets matches every ant.
C3_EmptySetIsWildcard ==
  Resolved =>
    \A i \in 1..Len(LastRules) :
      LET rule == LastRules[i]
          stateOk == rule.from_state = {} \/ last.before.state \in rule.from_state
          blockOk == rule.from_block = {} \/ last.block \in rule.from_block
          facingOk == rule.from_facing = {} \/ last.before.facing \in rule.from_facing
      IN /\ (rule.from_state = {} /\ blockOk /\ facingOk) => last.rule \in 1..i
         /\ (rule.from_block = {} /\ stateOk /\ facingOk) => last.rule \in 1..i
         /\ (rule.from_facing = {} /\ stateOk /\ blockOk) => last.rule \in 1..i

C3_Witness ==
  /\ last.kind = "apply"
  /\ last.rule = 2
  /\ LastRules[2].from_state = {}
  /\ LastRules[2].from_block = {}
  /\ LastRules[2].from_facing = {}
  /\ last.block = "STONE"
  /\ last.before.facing = "North"
  /\ last.before.state = "s1"

\* C4: an ant becomes halted on a step exactly when no rule of its ruleset
\* admits its state, block and facing, and an ant that was halted once is
\* halted in every later state.
C4_HaltsExactlyWhenNoRule ==
  /\ Resolved =>
       (ants[idx - 1].halted <=>
          LowestAdmitting(LastRules, last.before.state, last.block,
                          last.before.facing) = 0)
  /\ \A i \in 1..Len(ants) : ants[i].id \in everHalted => ants[i].halted

\* C5: the loop is left for good exactly when every ant is halted: from the
\* top of the loop the run ends iff all ants are halted and otherwise a pass
\* begins; while all ants are halted nothing is read or written; the ended
\* run takes no further step.
C5_LoopEndsIffAllHalted ==
  [][ /\ pc # "done"
      /\ (pc = "loop" /\ pc' = "done") => \A i \in 1..Len(ants) : ants[i].halted
      /\ (pc = "loop" /\ pc' = "pass") => \E i \in 1..Len(ants) : ~ants[i].halted
      /\ (\A i \in 1..Len(ants) : ants[i].halted) =>
           /\ world' = world
           /\ processed' = processed
           /\ writers' = writers
           /\ pc' \in {"loop", "pass", "done"}
           /\ pc = "loop" => pc' = "done" ]_vars

C5_Witness ==
  /\ pc = "done"
  /\ tick >= 2
  /\ Len(ants) >= 2
  /\ writers # {}

\* C6: after a rule fired the ant's state is the rule's to-state, its facing
\* is the rule's to-facing when one is given, its position is the old position
\* plus the unit vector of the facing it has after the update, and a write
\* went to the position it had before moving.
C6_TransitionOrder ==
  last.kind = "apply" =>
    LET rule == LastRules[last.rule]
        now == ants[idx - 1]
    IN /\ now.state = rule.to_state
       /\ rule.to_facing # None => now.facing = rule.to_facing
       /\ now.position = CoordAdd(last.before.position, into_vec3(now.facing))
       /\ last.wrote => /\ last.wpos = last.before.position
                        /\ world[last.before.position] = rule.to_block

C6_Witness ==
  /\ last.kind = "apply"
  /\ LastRules[last.rule].to_facing = "North"
  /\ last.before.facing = "East"
  /\ last.wrote
  /\ ants[idx - 1].position = CoordAdd(last.before.position, <<0, 0, -1>>)

C8_EmptyRulesetHalts ==
  \A i \in 1..Len(ants) :
    Len(RulesOf(rulesets, ants[i])) = 0 =>
      /\ ants[i].id \in processed => ants[i].halted
      /\ ants[i].id \notin writers

C8_Witness ==
  /\ tick >= 2
  /\ \E i \in 1..Len(ants) :
       /\ Len(RulesOf(rulesets, ants[i])) = 0
       /\ ants[i].id \in processed
       /\ ants[i].halted
  /\ writers # {}

\* C9: when a pass begins, a population of n ants over the cap c has lost
\* exactly its first n - c ants, whatever their halted flags, and the pass
\* runs over the last c ants in their order; a population within the cap is
\* untouched.
C9_CapTrim ==
  (pc = "pass" /\ idx = 1) =>
    LET n == Len(preTrim)
    IN /\ n > cap => ants = SubSeq(preTrim, n - cap + 1, n)
       /\ n <= cap => ants = preTrim
       /\ passLen = Len(ants)

C9_Witness ==
  /\ pc = "pass"
  /\ idx = 1
  /\ cap = 2
  /\ Len(preTrim) = 3
  /\ ~preTrim[1].halted
  /\ ants = <<preTrim[2], preTrim[3]>>

\* C10: a fired rule with a spawn prototype appends exactly one ant, placed
\* where the acting ant stood before it moved and carrying an identity no ant
\* created before it has; a fired rule without one leaves the size alone.
C10_Spawn ==
  [][ last'.kind = "apply" =>
        LET rule == RulesOf(rulesets, ants[idx])[last'.rule]
        IN /\ Len(rule.spawn) > 0 =>
                /\ Len(ants') = Len(ants) + 1
                /\ \A i \in 1..Len(ants) : i # idx => ants'[i] = ants[i]
                /\ ants'[Len(ants')].position = ants[idx].position
                /\ ants'[Len(ants')].id \notin created
                /\ \A i \in 1..Len(ants) : ants'[Len(ants')].id # ants[i].id
                /\ ants'[Len(ants')].ruleset = rule.spawn[1].ruleset
           /\ Len(rule.spawn) = 0 => Len(ants') = Len(ants) ]_vars

C10_Witness ==
  /\ last.kind = "apply"
  /\ Len(LastRules[last.rule].spawn) > 0
  /\ Len(ants) = 3
  /\ ants[3].position = last.before.position
  /\ ants[3].position # ants[3].offset
  /\ ants[3].position # ants[idx - 1].position
  /\ ants[3].id = 3

\* C11: within a tick the processed ants are ants that were in the list when
\* the pass began, each is processed at most once, they are processed in list
\* order, and no ant spawned during the tick is processed in it.
C11_OncePerTickInOrder ==
  LET v == tickLog.visited
      atStart == { ants[i].id : i \in 1..passLen }
      IndexOf(id) == CHOOSE i \in 1..Len(ants) : ants[i].id = id
  IN \A i \in 1..Len(v) :
       /\ v[i] \in atStart
       /\ v[i] \notin tickLog.spawned
       /\ \A j \in 1..(i - 1) : v[j] # v[i] /\ IndexOf(v[j]) < IndexOf(v[i])

C11_Witness ==
  /\ pc = "loop"
  /\ tick >= 2
  /\ Len(tickLog.visited) = 2
  /\ Cardinality(tickLog.spawned) = 2
  /\ Len(ants) = passLen + 2

\* ------------------------------------------------ predicates of the parser
\* The parser has returned an error.
PFailed == p_result \notin {"idle", "running", "ok"}

\* Some ruleset of the sequence has the name, ignoring case.
Named(rulesetSeq, name) ==
  \E i \in 1..Len(rulesetSeq) : ToLower(rulesetSeq[i].name) = ToLower(name)

\* The prototypes a Schema holds: the top-level ants and the spawns of rules.
Prototypes(antSeq, rulesetSeq) ==
  { antSeq[i] : i \in 1..Len(antSeq) }
    \cup UNION { UNION { { rulesetSeq[i].rules[j].spawn[k] :
                             k \in 1..Len(rulesetSeq[i].rules[j].spawn) } :
                         j \in 1..Len(rulesetSeq[i].rules) } :
                 i \in 1..Len(rulesetSeq) }

\* C13: a Schema returned by a successful parse has no prototype, top-level
\* or spawned, whose ruleset name no ruleset bears (ignoring case); an input
\* that is read to its end with such a prototype returns the error unknown
\* ruleset and no Schema.
C13_NoDanglingRuleset ==
  /\ p_result = "ok" =>
       \A a \in Prototypes(p_ants, p_rulesets) : Named(p_rulesets, a.ruleset)
  /\ ( /\ p_kind = "finish"
       /\ \E a \in Prototypes(p_prev.ants, p_prev.rulesets) :
            ~Named(p_prev.rulesets, a.ruleset) )
       => p_result = "unknown ruleset"

\* A parse succeeds with a top-level ant and a spawn that both name the
\* ruleset r as R.
C13_Witness ==
  /\ p_result = "ok"
  /\ Len(p_ants) = 1
  /\ p_ants[1].ruleset = "R"
  /\ \A i \in 1..Len(p_rulesets) : p_rulesets[i].name = "r"
  /\ \E a \in Prototypes(<<>>, p_rulesets) : a.ruleset = "R"

\* C14: the names of the rulesets collected are pairwise different ignoring
\* case, a ruleset whose name matches an earlier one ignoring case is
\* rejected, and a state name of a rule is the text as written, which rule
\* matching compares exactly.
C14_RulesetNamesUnique ==
  /\ \A i, j \in 1..Len(p_rulesets) :
       i # j => ToLower(p_rulesets[i].name) # ToLower(p_rulesets[j].name)
  /\ (p_kind = "ruleset_end" /\ Named(p_prev.rulesets, p_prev.name)) => PFailed
  /\ \A i \in 1..Len(p_rulesets) : \A j \in 1..Len(p_rulesets[i].rules) :
       LET rule == p_rulesets[i].rules[j]
       IN /\ \A st \in rule.from_state :
               \/ \E n \in 1..Len(p_tokens) : p_tokens[n] = st
               \/ \E n \in DOMAIN p_symbols : p_symbols[n] = st
          /\ \A st \in {"s1", "S1"} :
               RuleMatches(rule, [AntProto("r", <<0, 0, 0>>, "East") EXCEPT !.state = st],
                           "AIR")
                 => (rule.from_state = {} \/ st \in rule.from_state)

\* The ruleset R is rejected after the ruleset r.
C14_Witness ==
  /\ p_kind = "ruleset_end"
  /\ p_result = "duplicate ruleset"
  /\ p_prev.name = "R"
  /\ Len(p_prev.rulesets) = 1
  /\ p_prev.rulesets[1].name = "r"

\* The input with every reference to a defined macro replaced by the text
\* defined for it.
Literal(toks, symbols) ==
  [i \in 1..Len(toks) |->
     IF starts_with_dollar(toks[i]) /\ remove_first_char(toks[i]) \in DOMAIN symbols
     THEN symbols[remove_first_char(toks[i])]
     ELSE toks[i]]

\* The input from index a to index b has a reference to a defined macro.
HasMacro(toks, a, b, symbols) ==
  \E i \in a..b :
    /\ i <= Len(toks)
    /\ starts_with_dollar(toks[i])
    /\ remove_first_char(toks[i]) \in DOMAIN symbols

\* C15: a rule written with references to defined macros in its state, block
\* and direction positions is read as the rule written with the defined text
\* in their place: the same rule, or the same error.
C15_MacroEqualsLiteral ==
  p_kind \in {"rule", "rule_spawn"} =>
    LET lit == RuleHead(Literal(p_tokens, p_prev.symbols), p_prev.pos, p_prev.symbols)
    IN /\ RuleHead(p_tokens, p_prev.pos, p_prev.symbols) = lit
       /\ (p_result = "running" /\ p_kind = "rule") =>
            /\ lit.err = ""
            /\ p_rules = Append(p_prev.rules, lit.val)
       /\ (p_result = "running" /\ p_kind = "rule_spawn") =>
            /\ lit.err = ""
            /\ p_rule = lit.val

\* A rule is read whose states and blocks are written with the macro x,
\* defined as stone.
C15_Witness ==
  /\ p_kind = "rule"
  /\ p_result = "running"
  /\ HasMacro(p_tokens, p_prev.pos, p_pos - 1, p_prev.symbols)
  /\ p_rules[Len(p_rules)].from_state = {"stone", "initial"}
  /\ p_rules[Len(p_rules)].from_block = {"STONE"}
  /\ p_rules[Len(p_rules)].to_state = "stone"
  /\ p_rules[Len(p_rules)].to_block = "STONE"

\* The name a define statement gives, as written after the keyword.
DefinedName(toks, pos) ==
  IF pos + 1 <= Len(toks) /\ starts_with_dollar(toks[pos + 1])
  THEN <<remove_first_char(toks[pos + 1])>>
  ELSE <<>>

\* C16: a define statement for a name that has a definition is an error,
\* whatever its text; a define statement that succeeds adds its name, which
\* was not defined, and leaves the other definitions as they were; names that
\* are not equal as written are different names.
C16_NoRedefinition ==
  p_kind = "define" =>
    LET name == DefinedName(p_tokens, p_prev.pos)
    IN /\ (Len(name) = 1 /\ name[1] \in DOMAIN p_prev.symbols) => PFailed
       /\ p_result = "redefinition of symbol" =>
            (Len(name) = 1 /\ name[1] \in DOMAIN p_prev.symbols)
       /\ p_result = "running" =>
            /\ Len(name) = 1
            /\ name[1] \notin DOMAIN p_prev.symbols
            /\ DOMAIN p_symbols = DOMAIN p_prev.symbols \cup {name[1]}
            /\ \A n \in DOMAIN p_prev.symbols : p_symbols[n] = p_prev.symbols[n]

\* The macro x is defined a second time with the text it has.
C16_Witness ==
  /\ p_kind = "define"
  /\ p_result = "redefinition of symbol"
  /\ DefinedName(p_tokens, p_prev.pos) = <<"x">>
  /\ p_prev.symbols["x"] = p_tokens[p_prev.pos + 2]

\* The token at index i is a reference to a macro: a name with the dollar
\* sign that is not the name a define statement gives.
IsReference(toks, i) ==
  /\ starts_with_dollar(toks[i])
  /\ ~(i > 1 /\ toks[i - 1] = "define")

\* C17: in an input that parses, every reference to a macro comes after a
\* define statement for its name; an input with a reference to a name that
\* is undefined, or defined only later, is an error.
C17_ResolveOnlyPreceding ==
  p_result = "ok" =>
    \A i \in 1..Len(p_tokens) :
      IsReference(p_tokens, i) =>
        \E j \in 1..(i - 2) : p_tokens[j] = "define" /\ p_tokens[j + 1] = p_tokens[i]

\* A rule refers to a macro that only a later statement defines.
C17_Witness ==
  /\ p_result = "undefined symbol"
  /\ p_kind = "rule"
  /\ \E i \in p_prev.pos..Len(p_tokens) : \E j \in (i + 1)..(Len(p_tokens) - 1) :
       /\ IsReference(p_tokens, i)
       /\ p_tokens[j] = "define"
       /\ p_tokens[j + 1] = p_tokens[i]

\* The name a set statement gives, as written after the keyword.
SetName(toks, pos) == IF pos + 1 <= Len(toks) THEN toks[pos + 1] ELSE ""

\* C18: a set statement for a name that is neither delay nor cap, ignoring
\* case, is an error; so is one for a property that is set; one that
\* succeeds gives the property, which was absent, the value written and
\* leaves the other property as it was; no other step changes a property.
C18_PropertySet ==
  /\ p_kind = "set" =>
       LET name == ToLower(SetName(p_tokens, p_prev.pos))
       IN /\ name \notin {"delay", "cap"} => PFailed
          /\ (name = "delay" /\ Len(p_prev.properties.delay) > 0) => PFailed
          /\ (name = "cap" /\ Len(p_prev.properties.cap) > 0) => PFailed
          /\ (p_result = "running" /\ name = "delay") =>
               /\ p_properties.delay = <<IntValue(p_tokens[p_prev.pos + 2])>>
               /\ p_properties.cap = p_prev.properties.cap
          /\ (p_result = "running" /\ name = "cap") =>
               /\ p_properties.cap = <<IntValue(p_tokens[p_prev.pos + 2])>>
               /\ p_properties.delay = p_prev.properties.delay
  /\ p_kind # "set" => p_properties = p_prev.properties

\* The property delay is set a second time, written DELAY.
C18_Witness ==
  /\ p_kind = "set"
  /\ p_result = "duplicate property"
  /\ SetName(p_tokens, p_prev.pos) = "DELAY"
  /\ Len(p_prev.properties.delay) = 1

\* How many tokens of the input from index a to index b are the lexeme.
CountTok(toks, a, b, lexeme) ==
  Cardinality({ i \in a..b : i <= Len(toks) /\ toks[i] = lexeme })

\* The prototype the latest step built, of a top-level ant or of a spawn.
BuiltAnt ==
  IF p_kind = "ant_end" THEN p_ants[Len(p_ants)]
  ELSE p_rules[Len(p_rules)].spawn[1]

\* C19: an ant block that parses has one use clause and at most one offset
\* and one facing clause; its prototype is in state initial and not halted,
\* with offset (0,0,0) and facing East unless a clause gives them; a block
\* without a use clause and a second clause of a kind are errors.
C19_AntBlockClauses ==
  /\ (p_kind \in {"ant_end", "spawn_end"} /\ p_result = "running") =>
       /\ CountTok(p_tokens, p_block, p_prev.pos, "use") = 1
       /\ CountTok(p_tokens, p_block, p_prev.pos, "offset") <= 1
       /\ CountTok(p_tokens, p_block, p_prev.pos, "facing") <= 1
       /\ BuiltAnt.state = INITIAL_STATE
       /\ BuiltAnt.halted = FALSE
       /\ CountTok(p_tokens, p_block, p_prev.pos, "offset") = 0
            => BuiltAnt.offset = <<0, 0, 0>>
       /\ CountTok(p_tokens, p_block, p_prev.pos, "facing") = 0
            => BuiltAnt.facing = "East"
  /\ ( /\ p_kind \in {"ant_end", "spawn_end"}
       /\ CountTok(p_tokens, p_block, p_prev.pos, "use") = 0 ) => PFailed
  /\ ( /\ p_kind = "ant_clause"
       /\ p_tokens[p_prev.pos] \in {"use", "offset", "facing"}
       /\ CountTok(p_tokens, p_block, p_prev.pos - 1, p_tokens[p_prev.pos]) >= 1 )
       => PFailed

\* An ant block with its offset clause before its use clause parses; its
\* facing is the default.
C19_Witness ==
  /\ p_kind = "ant_end"
  /\ p_result = "running"
  /\ p_tokens[p_block + 1] = "offset"
  /\ CountTok(p_tokens, p_block, p_prev.pos, "use") = 1
  /\ p_ants[Len(p_ants)].offset = <<1, 0, -1>>
  /\ p_ants[Len(p_ants)].facing = "East"

\* C20: a facing clause with one of the six direction names, in a block that
\* has none yet, is accepted and gives the prototype that facing.
C20_FacingClauseAccepted ==
  ( /\ p_kind = "ant_clause"
    /\ p_tokens[p_prev.pos] = "facing"
    /\ p_prev.pos + 2 <= Len(p_tokens)
    /\ parse_direction(p_tokens[p_prev.pos + 1]) # None
    /\ p_tokens[p_prev.pos + 2] = ";"
    /\ Len(p_prev.ant.facing) = 0 )
    => /\ p_result = "running"
       /\ p_ant.facing = <<parse_direction(p_tokens[p_prev.pos + 1])>>

\* ----------------------------------------------- predicates of the numbers
\* The decimal numerals of the inputs and the numbers they write.
Decimal(text) ==
  CASE text = "0" -> 0
    [] text = "1" -> 1
    [] text = "2" -> 2
    [] text = "5" -> 5
    [] text = "-1" -> -1
    [] OTHER -> None

\* What a lexeme is where a number of a type is expected: "value" when it
\* writes a number of the type, "real" when it writes a number the type does
\* not hold, "word" when it writes no number.
NumberKind(text, signed) ==
  IF text \in {"0", "1", "2", "5"} THEN "value"
  ELSE IF text = "-1" THEN (IF signed THEN "value" ELSE "real")
  ELSE IF text = "1.5" THEN "real"
  ELSE "word"

\* What the claim has the parse make of a lexeme where a number is expected.
NumberOutcome(text, signed) ==
  CASE NumberKind(text, signed) = "real" -> "invalid number value"
    [] NumberKind(text, signed) = "word" ->
         "expected number, found non-numeric identifier"
    [] OTHER -> "running"

\* The latest step read the value of a set statement for delay or cap.
SetOfNumber ==
  /\ p_kind = "set"
  /\ ToLower(SetName(p_tokens, p_prev.pos)) \in {"delay", "cap"}
  /\ p_prev.pos + 2 <= Len(p_tokens)
  /\ TokenKind_from(p_tokens[p_prev.pos + 2]) = "Ident"
  /\ ~starts_with_dollar(p_tokens[p_prev.pos + 2])

\* The latest step read an offset clause whose three components are
\* identifiers written without a macro, separated by commas.
OffsetOfNumbers ==
  /\ p_kind = "ant_clause"
  /\ p_tokens[p_prev.pos] = "offset"
  /\ p_prev.pos + 6 <= Len(p_tokens)
  /\ \A k \in {1, 3, 5} :
       /\ TokenKind_from(p_tokens[p_prev.pos + k]) = "Ident"
       /\ ~starts_with_dollar(p_tokens[p_prev.pos + k])
  /\ p_tokens[p_prev.pos + 2] = ","
  /\ p_tokens[p_prev.pos + 4] = ","
  /\ p_tokens[p_prev.pos + 6] = ";"
  /\ Len(p_prev.ant.offset) = 0

\* The first component of the offset clause that is not a value, 0 if all are.
FirstBadComponent ==
  LET bad == { k \in {1, 3, 5} :
                 NumberKind(p_tokens[p_prev.pos + k], TRUE) # "value" }
  IN IF bad = {} THEN 0 ELSE CHOOSE k \in bad : \A j \in bad : k <= j

\* C25: where a number is expected, a lexeme that writes a real number the
\* type does not hold (1.5, or -1 for the unsigned delay and cap) is rejected
\* with invalid number value, a lexeme that writes no number is rejected with
\* expected number, found non-numeric identifier, and a lexeme that writes a
\* number of the type is accepted with that number.
C25_NumericParsing ==
  /\ SetOfNumber =>
       LET v == p_tokens[p_prev.pos + 2]
           name == ToLower(SetName(p_tokens, p_prev.pos))
       IN /\ NumberKind(v, FALSE) # "value" => p_result = NumberOutcome(v, FALSE)
          /\ (NumberKind(v, FALSE) = "value" /\ Len(p_prev.properties[name]) = 0) =>
               /\ p_result = "running"
               /\ p_properties[name] = <<Decimal(v)>>
  /\ OffsetOfNumbers =>
       IF FirstBadComponent = 0
       THEN /\ p_result = "running"
            /\ p_ant.offset = << << Decimal(p_tokens[p_prev.pos + 1]),
                                    Decimal(p_tokens[p_prev.pos + 3]),
                                    Decimal(p_tokens[p_prev.pos + 5]) >> >>
       ELSE p_result = NumberOutcome(p_tokens[p_prev.pos + FirstBadComponent], TRUE)

\* The cap is set to -1: a real number the unsigned type does not hold.
C25_Witness ==
  /\ SetOfNumber
  /\ ToLower(SetName(p_tokens, p_prev.pos)) = "cap"
  /\ p_tokens[p_prev.pos + 2] = "-1"
  /\ p_result = "invalid number value"

\* --------------------------------------------------------------- main runs
\* A slip: main goes on with whatever the parser has returned.
ParsedOk_wrong(result) == result # "running"

\* The ? on the parser's result: main goes on only when the parse succeeded.
ParsedOk(result) == result = "ok"

\* The population cap of a schema that sets none.
DEFAULT_CAP == 50

\* The cap the engine runs with.
CapOf(properties) ==
  IF Len(properties.cap) = 0 THEN DEFAULT_CAP ELSE properties.cap[1]

\* main before the text is read: nothing is parsed, nothing is connected.
InitMain ==
  /\ InitParse

\* main after the parse: the connection is opened and the anchor is read;
\* either may fail. Then the prototypes become the live ants.
Start ==
  /\ pc = "idle"
  /\ ParsedOk(p_result)
  /\ \E ok \in BOOLEAN :
       /\ pc' = IF ok THEN "loop" ELSE Propagate(pc)
       /\ failure' = IF ok THEN "none" ELSE "anchor"
       /\ ants' = IF ok THEN Instantiate(p_ants) ELSE ants
  /\ rulesets' = p_rulesets
  /\ cap' = CapOf(p_properties)
  /\ nextId' = Len(ants') + 1
  /\ preTrim' = ants'
  /\ created' = 1..Len(ants')
  /\ last' = NoStep
  /\ tickLog' = NoLog
  /\ UNCHANGED <<world, idx, passLen, tick, processed, writers, everHalted>>
  /\ UNCHANGED notEngine

NextMain ==
  \/ NextParse
  \/ Start
  \/ Next

SpecMain == InitMain /\ [][NextMain]_vars

\* C23: while the parser runs and after it has returned an error, main has
\* not opened the connection: the anchor was not read, no cell was read or
\* written, no ant exists and no effect was attempted.
C23_ParseErrorBeforeSimulation ==
  p_result \notin {"idle", "ok"} =>
    /\ pc = "idle"
    /\ failure = "none"
    /\ Len(ants) = 0
    /\ DOMAIN world = {}
    /\ processed = {}
    /\ writers = {}
    /\ tick = 0

\* The parse of a text with an ant block failed at its last step, the lookup
\* of the rulesets the ants name.
C23_Witness ==
  /\ p_result \notin {"idle", "ok", "running"}
  /\ p_kind = "finish"
  /\ Len(p_ants) > 0
  /\ pc = "idle"

\* -------------------------------------------- predicates of the population
\* The identities of the ants of a population.
IdsOf(list) == { list[i].id : i \in 1..Len(list) }

\* C26: no two ants of the population share an identity; the population is
\* in creation order and an ant created later has the larger identity; the
\* next identity is larger than every identity handed out so far, those of
\* evicted ants included, so none is used again.
C26_IdentitiesUniqueIncreasing ==
  /\ \A i, j \in 1..Len(ants) : i < j => ants[i].id < ants[j].id
  /\ IdsOf(ants) \subseteq created
  /\ \A c \in created : c < nextId
  /\ (last.kind = "apply" /\ Len(ants) > last.pop) =>
       \A i \in 1..(Len(ants) - 1) : ants[i].id < ants[Len(ants)].id

\* An ant was spawned after the trim had evicted an ant.
C26_Witness ==
  /\ last.kind = "apply"
  /\ Len(ants) > last.pop
  /\ Len(ants) >= 2
  /\ created \ IdsOf(ants) # {}
  /\ ants[Len(ants)].id = nextId - 1

\* C27: the step of the pass at a halted ant reads no cell, writes no cell,
\* spawns nothing and leaves every ant as it is; until the next trim a halted
\* ant stays in the population, at its index, with its position, facing,
\* state and identity.
C27_HaltedSkipped ==
  [][ /\ (pc = "pass" /\ idx <= passLen /\ ants[idx].halted) =>
          /\ ants' = ants
          /\ world' = world
          /\ writers' = writers
          /\ processed' = processed
          /\ nextId' = nextId
          /\ tickLog' = tickLog
          /\ idx' = idx + 1
      /\ pc = "pass" =>
          \A i \in 1..Len(ants) :
            ants[i].halted => (i <= Len(ants') /\ ants'[i] = ants[i]) ]_vars

\* A halted ant was passed over in a pass that has a running ant.
C27_Witness ==
  /\ last.kind = "skip"
  /\ last.before.halted
  /\ pc = "pass"
  /\ \E i \in 1..Len(ants) : ~ants[i].halted

\* C28: from the first trim on, a pass begins with at most cap ants and the
\* population is at most twice the cap at every time, the end of the tick
\* included, since an ant of the pass adds at most one ant.
C28_PopulationBound ==
  tick >= 1 =>
    /\ passLen <= cap
    /\ Len(ants) <= 2 * cap
    /\ pc = "pass" => Len(ants) <= passLen + (idx - 1)
    /\ (last.kind = "none" /\ pc = "pass") => Len(ants) <= cap

\* A tick that began with a trim ends with twice the cap of ants.
C28_Witness ==
  /\ tick >= 1
  /\ pc = "loop"
  /\ Len(preTrim) > cap
  /\ Len(ants) = 2 * cap

\* ------------------------------------------------------------------ lexer
\* The characters of the inputs.
Chars == {"a", "b", "5", "-", ">", ",", " ", "\n"}

Digits == {"5"}

\* CharKind::from; Combining { is_symbol } is "Word" or "Symbol".
CharKind_from(ch) ==
  CASE ch \in {" ", "\n"} -> "Whitespace"
    [] ch = "," -> "Atomic"
    [] ch = "-" -> "Any"
    [] ch \in {"a", "b", "5"} -> "Word"
    [] OTHER -> "Symbol"

\* Tokens::is_end.
Lex_is_end(text, cursor) == cursor >= Len(text)

\* Tokens::peek_char, for a cursor before the end.
peek_char(text, cursor) == text[cursor + 1]

\* Tokens::peek_is_comment: the text at the cursor starts with two dashes.
peek_is_comment(text, cursor) ==
  /\ cursor + 2 <= Len(text)
  /\ text[cursor + 1] = "-"
  /\ text[cursor + 2] = "-"

\* A slip: the comment is not skipped, the cursor stays at its marker.
advance_until_next_line_wrong(text, cursor) == cursor

\* Tokens::advance_until_next_line: the cursor past the next line break, or
\* at the end.
RECURSIVE advance_until_next_line(_, _)
advance_until_next_line(text, cursor) ==
  IF Lex_is_end(text, cursor) THEN cursor
  ELSE IF peek_char(text, cursor) = "\n" THEN cursor + 1
  ELSE advance_until_next_line(text, cursor + 1)

\* Tokens::advance_until_nonwhitespace.
RECURSIVE advance_until_nonwhitespace(_, _)
advance_until_nonwhitespace(text, cursor) ==
  IF Lex_is_end(text, cursor) THEN cursor
  ELSE IF CharKind_from(peek_char(text, cursor)) # "Whitespace" THEN cursor
  ELSE advance_until_nonwhitespace(text, cursor + 1)

\* Results that are not a cursor: None, and a branch marked unreachable!().
NoToken == -1

Unreachable == -2

\* The while loop of expect_combination: the cursor after the last character
\* that joins a token of the class cls ("none" while only dashes were read).
RECURSIVE Combine(_, _, _)
Combine(text, cursor, cls) ==
  IF Lex_is_end(text, cursor) THEN cursor
  ELSE CHOOSE out \in
         { IF k \in {"Whitespace", "Atomic"} THEN cursor
           ELSE IF k = "Any" THEN Combine(text, cursor + 1, cls)
           ELSE IF cls # "none" /\ cls # k THEN cursor
           ELSE Combine(text, cursor + 1, k) :
           k \in {CharKind_from(peek_char(text, cursor))} } : TRUE

\* Tokens::expect_combination from a cursor before the end: the cursor after
\* the token, or Unreachable when the first character is not combining.
expect_combination(text, start) ==
  CHOOSE out \in
    { IF k \in {"Whitespace", "Atomic"} THEN Unreachable
      ELSE Combine(text, start + 1, IF k = "Any" THEN "none" ELSE k) :
      k \in {CharKind_from(peek_char(text, start))} } : TRUE

\* Tokens::try_atomic from a cursor before the end: the cursor after the
\* token, NoToken for a character that is not atomic, Unreachable for
\* whitespace.
try_atomic(text, start) ==
  CHOOSE out \in
    { IF k = "Whitespace" THEN Unreachable
      ELSE IF k = "Atomic" THEN start + 1
      ELSE NoToken :
      k \in {CharKind_from(peek_char(text, start))} } : TRUE

\* try_atomic().unwrap_or_else(|| expect_combination()).
TokenEnd(text, start) ==
  IF try_atomic(text, start) = NoToken THEN expect_combination(text, start)
  ELSE try_atomic(text, start)

\* The texts: every sequence of at most MaxText characters.
Texts == UNION { [1..n -> Chars] : n \in 0..MaxText }

InitLex ==
  /\ l_text \in Texts
  /\ l_cursor = 0
  /\ l_tokens = <<>>
  /\ l_pc = "lexing"
  /\ EngineIdle
  /\ WorldIdle
  /\ ParseIdle

\* next(), an iteration of the loop that finds the end of the text.
LexEnd ==
  /\ l_pc = "lexing"
  /\ \E c \in { advance_until_nonwhitespace(l_text, l_cursor) } :
       /\ Lex_is_end(l_text, c)
       /\ l_cursor' = c
  /\ l_pc' = "done"
  /\ UNCHANGED <<l_text, l_tokens>>
  /\ UNCHANGED <<engineVars, worldVars, parseVars>>

\* next(), an iteration of the loop that finds a comment and skips the line.
LexComment ==
  /\ l_pc = "lexing"
  /\ \E c \in { advance_until_nonwhitespace(l_text, l_cursor) } :
       /\ ~Lex_is_end(l_text, c)
       /\ peek_is_comment(l_text, c)
       /\ l_cursor' = advance_until_next_line(l_text, c)
  /\ UNCHANGED <<l_text, l_tokens, l_pc>>
  /\ UNCHANGED <<engineVars, worldVars, parseVars>>

\* next(), an iteration of the loop that returns a token.
LexToken ==
  /\ l_pc = "lexing"
  /\ \E c \in { advance_until_nonwhitespace(l_text, l_cursor) } :
       /\ ~Lex_is_end(l_text, c)
       /\ ~peek_is_comment(l_text, c)
       /\ \E e \in { TokenEnd(l_text, c) } :
            IF e = Unreachable
            THEN /\ l_pc' = "panic"
                 /\ l_cursor' = c
                 /\ UNCHANGED l_tokens
            ELSE /\ l_pc' = "lexing"
                 /\ l_cursor' = e
                 /\ l_tokens' = Append(l_tokens,
                                       [from |-> l_cursor, start |-> c, end |-> e])
  /\ UNCHANGED l_text
  /\ UNCHANGED <<engineVars, worldVars, parseVars>>

NextLex ==
  \/ LexEnd
  \/ LexComment
  \/ LexToken

SpecLex == InitLex /\ [][NextLex]_vars

\* The iterator is driven until it returns None.
SpecLexFair == SpecLex /\ WF_vars(NextLex)

\* The characters of a token.
Lexeme(tok) == SubSeq(l_text, tok.start + 1, tok.end)

\* The class a character of the text has by the rule of the dash: a dash is
\* a word character when a digit follows it at once and a symbol otherwise.
ClassAt(text, i) ==
  IF text[i] = "-"
  THEN IF i < Len(text) /\ text[i + 1] \in Digits THEN "Word" ELSE "Symbol"
  ELSE CharKind_from(text[i])

\* C24: the characters of every combining token are of one class, all word
\* characters or all symbol characters, where a dash counts as a word
\* character only when a digit follows it at once.
C24_SingleClassTokens ==
  \A n \in 1..Len(l_tokens) :
    \A i, j \in (l_tokens[n].start + 1)..l_tokens[n].end :
      ClassAt(l_text, i) = ClassAt(l_text, j)

\* ---------------------------------------------- predicates of the cache
\* C29: every cache entry that has not expired holds the block the
\* connection holds at its cell, after an operation that returned an error
\* too.
C29_CacheCoherent ==
  \A q \in DOMAIN w_entries :
    w_now <= w_entries[q].expiration => w_entries[q].block = McBlock(w_mc, q)

\* C30: the subtraction max_dist - dist of calculate_expiration is never
\* negative and max_dist is never zero when an entry is inserted: no entry
\* has the expiration of a failed computation, every cell of the chunk a
\* get_block fetches is within chunk_radius * 3 of the cell asked for, and
\* entries exist only with a radius above zero.
C30_ExpirationNeverUnderflows ==
  /\ \A q \in DOMAIN w_entries : w_entries[q].expiration # ArithmeticPanic
  /\ \A q \in DOMAIN w_entries : w_entries[q].expiration <= w_now + w_lifetime
  /\ DOMAIN w_entries # {} => w_radius * 3 > 0
  /\ (w_last.op = "get" /\ w_last.ok /\ Cache_enabled(w_radius, w_lifetime)) =>
       \A q \in get_chunk(w_radius, w_last.loc) :
         manhattan_distance(w_last.loc, q) <= w_radius * 3

\* A chunk was fetched and its corner, at the distance chunk_radius * 3, was
\* cached with no lifetime left.
C30_Witness ==
  /\ w_last.op = "get"
  /\ w_last.ok
  /\ Cache_enabled(w_radius, w_lifetime)
  /\ \E q \in DOMAIN w_entries :
       /\ manhattan_distance(w_last.loc, q) = w_radius * 3
       /\ w_entries[q].expiration = w_now

\* Where the part of the text before token n that no token covers begins:
\* the end of the token before it, the start of the text for the first.
GapStart(n) == IF n = 1 THEN 0 ELSE l_tokens[n - 1].end

\* The characters from offset a to offset b yield no token: they are all
\* whitespace, or the first of them that is not is the first dash of a
\* comment marker.
NoTokenIn(a, b) ==
  LET solid == { i \in (a + 1)..b : CharKind_from(l_text[i]) # "Whitespace" }
      first == CHOOSE i \in solid : \A j \in solid : i <= j
  IN solid # {} =>
       /\ l_text[first] = "-"
       /\ first + 1 <= b
       /\ l_text[first + 1] = "-"

\* What holds of the cursor and of the tokens returned so far.
LexSound ==
  /\ l_pc \in {"lexing", "done"}
  /\ l_cursor \in 0..Len(l_text)
  /\ \A n \in 1..Len(l_tokens) :
       /\ GapStart(n) <= l_tokens[n].from
       /\ l_tokens[n].from <= l_tokens[n].start
       /\ l_tokens[n].start < l_tokens[n].end
       /\ l_tokens[n].end <= l_cursor
       /\ \A i \in (l_tokens[n].start + 1)..l_tokens[n].end :
            CharKind_from(l_text[i]) # "Whitespace"
       /\ ~peek_is_comment(l_text, l_tokens[n].start)
       /\ NoTokenIn(GapStart(n), l_tokens[n].start)
       /\ (l_tokens[n].start > GapStart(n)
            /\ CharKind_from(l_text[l_tokens[n].start]) # "Whitespace") =>
             \E i \in (GapStart(n) + 1)..l_tokens[n].start : l_text[i] = "\n"
  /\ l_pc = "done" =>
       /\ l_cursor = Len(l_text)
       /\ NoTokenIn(GapStart(Len(l_tokens) + 1), Len(l_text))

\* A call of next() that does not return None moves the cursor forward.
LexProgress ==
  l_pc = "lexing" => (l_pc' = "done" \/ l_cursor' > l_cursor) /\ l_cursor' >= l_cursor

\* C31: for every text the iterator comes to return None, without a failed
\* assertion or an unreachable branch; every token is a non-empty slice of
\* the text with no whitespace in it that starts at or after the end of the
\* token before it; the cursor never decreases and never passes the end of
\* the text; and the text from a comment marker at the start of a token to
\* the end of its line yields no token.
C31_LexerTotal == []LexSound /\ [][LexProgress]_vars /\ <>(l_pc = "done")

\* The text is read to its end: a comment to the end of its line, which
\* yields no token, then a token on the next line.
C31_Witness ==
  /\ l_pc = "done"
  /\ peek_is_comment(l_text, 0)
  /\ Len(l_tokens) = 1
  /\ l_tokens[1].start > 2
  /\ l_text[l_tokens[1].start] = "\n"

\* --------------------------------------------- predicates of the failures
\* C21: once a world read or write has failed, the run is over: the failing
\* operation is not retried, no later ant is processed and no further world
\* read or write is issued, so the population, the cells, the cursor of the
\* pass and the sets of processed and writing ants never change again.
C21_WorldFailureAborts ==
  [][(failure \in {"read", "write"}) =>
       (UNCHANGED <<ants, world, idx, pc, nextId, processed, writers, tick>>)]_vars

\* A read or a write failed in a pass that still had a later ant to visit.
C21_Witness ==
  /\ failure \in {"read", "write"}
  /\ pc = "failed"
  /\ last.kind = "fail"
  /\ idx < passLen

\* C22: a failure of the effect call never ends the run.
C22_EffectFailureNeverAborts == ~(pc = "failed" /\ failure = "effect")

====
